---- MODULE Spec2Model ----
(***************************************************************************)
(* Parts catalogue: the catalogue page's filter / sort / paginate          *)
(* pipeline, the summary page's sort, FirebaseService's part search and    *)
(* ticket operations, and the part-application page's submission handler.  *)
(*                                                                         *)
(* Strings are sequences of one-character strings, so that substring       *)
(* search, lower-casing, collation and the "array index" form of an        *)
(* object key are computed and not assumed.  A part record is a function   *)
(* whose DOMAIN is the set of fields the record has: a missing (undefined) *)
(* field is a field that is not in the DOMAIN.  A JavaScript object keyed  *)
(* by part code is the sequence of its <<key, value>> entries in the order *)
(* Object.entries enumerates them.                                         *)
(***************************************************************************)
EXTENDS Integers, Sequences, FiniteSets, TLC

\* ------------------------------------------------------------------------
\* Bounds of the model
\* ------------------------------------------------------------------------
\* Number of filler parts of the large collection (more than one page of 50).
MaxFill == 51
\* Fetches of the catalogue's load effect that may be in flight together.
MaxInFlight == 2
\* Tickets the application list may hold.
MaxTickets == 2

\* ------------------------------------------------------------------------
\* Strings
\* ------------------------------------------------------------------------
DigitChars == <<"0", "1", "2", "3", "4", "5", "6", "7", "8", "9">>
UpperChars == <<"A", "B", "L", "P">>
LowerChars == <<"a", "b", "l", "p">>

IndexOf(seq, x) == IF \E i \in 1..Len(seq) : seq[i] = x
                   THEN CHOOSE i \in 1..Len(seq) : seq[i] = x
                   ELSE 0

IsDigit(c) == IndexOf(DigitChars, c) > 0
IsUpper(c) == IndexOf(UpperChars, c) > 0

\* String.prototype.toLowerCase, character by character.
LowerChar(c) == IF IsUpper(c) THEN LowerChars[IndexOf(UpperChars, c)] ELSE c
toLowerCase(s) == [i \in 1..Len(s) |-> LowerChar(s[i])]

\* String.prototype.includes: needle occurs as a contiguous substring.
includes(hay, needle) ==
    \E i \in 0..(Len(hay) - Len(needle)) :
        \A j \in 1..Len(needle) : hay[i + j] = needle[j]

\* Primary collation weight of a character: digits before letters, letters
\* alphabetically whatever their case.
PrimaryWeight(c) ==
    IF IsDigit(c) THEN IndexOf(DigitChars, c)
    ELSE 10 + IndexOf(LowerChars, LowerChar(c))

RECURSIVE ComparePrimary(_, _, _)
ComparePrimary(a, b, i) ==
    IF i > Len(a) /\ i > Len(b) THEN 0
    ELSE IF i > Len(a) THEN -1
    ELSE IF i > Len(b) THEN 1
    ELSE IF PrimaryWeight(a[i]) < PrimaryWeight(b[i]) THEN -1
    ELSE IF PrimaryWeight(a[i]) > PrimaryWeight(b[i]) THEN 1
    ELSE ComparePrimary(a, b, i + 1)

RECURSIVE CompareCase(_, _, _)
CompareCase(a, b, i) ==
    IF i > Len(a) \/ i > Len(b) THEN 0
    ELSE IF ~IsUpper(a[i]) /\ IsUpper(b[i]) THEN -1
    ELSE IF IsUpper(a[i]) /\ ~IsUpper(b[i]) THEN 1
    ELSE CompareCase(a, b, i + 1)

\* String.prototype.localeCompare: the primary weights decide; strings equal
\* at the primary level are ordered by case, lower case first.
localeCompare(a, b) ==
    LET p == ComparePrimary(a, b, 1)
    IN  IF p # 0 THEN p ELSE CompareCase(a, b, 1)

\* Value of a string of digits.
RECURSIVE DigitsValue(_)
DigitsValue(s) ==
    IF s = <<>> THEN 0
    ELSE 10 * DigitsValue(SubSeq(s, 1, Len(s) - 1)) + (IndexOf(DigitChars, s[Len(s)]) - 1)

\* An object key is an "array index" when it is the canonical decimal form
\* of an integer: such keys are enumerated first, in ascending numeric order.
IsArrayIndex(k) ==
    /\ Len(k) > 0
    /\ \A i \in 1..Len(k) : IsDigit(k[i])
    /\ (Len(k) = 1 \/ k[1] # "0")
    /\ Len(k) <= 9

\* ------------------------------------------------------------------------
\* Sequences and objects
\* ------------------------------------------------------------------------
\* Array.prototype.slice(start, end) with 0-based, end-exclusive indices.
slice(s, start, end) ==
    LET lo == IF start < Len(s) THEN start ELSE Len(s)
        hi == IF end < Len(s) THEN end ELSE Len(s)
    IN  IF lo >= hi THEN <<>> ELSE SubSeq(s, lo + 1, hi)

\* Mutant of ceilDiv: the quotient is rounded down.
ceilDiv_floor(n, d) == n \div d

\* Math.ceil(n / d) for n >= 0, d > 0.
ceilDiv(n, d) == (n + d - 1) \div d

Keys(obj) == [i \in 1..Len(obj) |-> obj[i][1]]
KeySet(obj) == {obj[i][1] : i \in 1..Len(obj)}
Range(s) == {s[i] : i \in 1..Len(s)}

\* obj[key] of an object, for a key the object has.
Lookup(obj, key) == obj[CHOOSE i \in 1..Len(obj) : obj[i][1] = key][2]

\* A field of a record, or the default when the field is missing or falsy:
\* part.Field || dflt.
OrNumber(part, field) ==
    IF field \in DOMAIN part THEN part[field] ELSE 0
OrString(part, field) ==
    IF field \in DOMAIN part THEN part[field] ELSE <<>>

\* Array.prototype.reverse.
reverse(s) == [i \in 1..Len(s) |-> s[Len(s) + 1 - i]]

\* Object.values: the values of the entries in the order of the keys.
ObjectValues(entries) == [i \in 1..Len(entries) |-> entries[i][2]]

\* ------------------------------------------------------------------------
\* Comparators handed to Array.prototype.sort
\* ------------------------------------------------------------------------
\* Mutant of CatalogueCompare: stock is compared in ascending order and a
\* missing price is not defaulted before the subtraction.
CatalogueCompare_ascendingStock(sortKey, x, y) ==
    CASE sortKey = "price" ->
            OrNumber(x[2], "Standard_Price") - OrNumber(y[2], "Standard_Price")
      [] sortKey = "stock" ->
            OrNumber(x[2], "Current_Stock_Qty") - OrNumber(y[2], "Current_Stock_Qty")
      [] sortKey = "supplier" ->
            localeCompare(OrString(x[2], "Supplier_Name"), OrString(y[2], "Supplier_Name"))
      [] OTHER -> localeCompare(x[1], y[1])

\* The comparator of the catalogue page; x and y are <<material, part>>.
CatalogueCompare(sortKey, x, y) ==
    CASE sortKey = "price" ->
            OrNumber(x[2], "Standard_Price") - OrNumber(y[2], "Standard_Price")
      [] sortKey = "stock" ->
            OrNumber(y[2], "Current_Stock_Qty") - OrNumber(x[2], "Current_Stock_Qty")
      [] sortKey = "supplier" ->
            localeCompare(OrString(x[2], "Supplier_Name"), OrString(y[2], "Supplier_Name"))
      [] OTHER -> localeCompare(x[1], y[1])

\* Mutant of SummaryCompare: the direction is ignored for numeric columns.
SummaryCompare_ignoresDirection(sortField, sortDirection, x, y) ==
    IF sortField = "Material"
    THEN IF sortDirection = "asc"
         THEN localeCompare(x[sortField], y[sortField])
         ELSE localeCompare(y[sortField], x[sortField])
    ELSE OrNumber(x, sortField) - OrNumber(y, sortField)

\* The comparator of the summary page; x and y are part records with their
\* Material.  Material is the one string column (both values are strings);
\* the other columns are numeric, a missing value being 0.
SummaryCompare(sortField, sortDirection, x, y) ==
    IF sortField = "Material"
    THEN IF sortDirection = "asc"
         THEN localeCompare(x[sortField], y[sortField])
         ELSE localeCompare(y[sortField], x[sortField])
    ELSE LET aNum == OrNumber(x, sortField)
             bNum == OrNumber(y, sortField)
         IN  IF sortDirection = "asc" THEN aNum - bNum ELSE bNum - aNum

\* Order of the array-index keys of an object: ascending numeric value.
CompareIndexKeys(x, y) == DigitsValue(x[1]) - DigitsValue(y[1])

\* Code-point order of the characters of a key: "-", digits, upper case,
\* lower case.
CodePoint(c) ==
    IF c = "-" THEN 0
    ELSE IF IsDigit(c) THEN IndexOf(DigitChars, c)
    ELSE IF c = LowerChar(c) /\ IndexOf(LowerChars, c) > 0 THEN 40 + IndexOf(LowerChars, c)
    ELSE 20 + IndexOf(UpperChars, c)

\* Order of the children of a database node that have no priority: by key,
\* character by character.
RECURSIVE CompareKeys(_, _, _)
CompareKeys(a, b, i) ==
    IF i > Len(a) /\ i > Len(b) THEN 0
    ELSE IF i > Len(a) THEN -1
    ELSE IF i > Len(b) THEN 1
    ELSE IF CodePoint(a[i]) # CodePoint(b[i]) THEN CodePoint(a[i]) - CodePoint(b[i])
    ELSE CompareKeys(a, b, i + 1)

Comparator(key, x, y) ==
    CASE key[1] = "catalogue" -> CatalogueCompare(key[2], x, y)
      [] key[1] = "summary" -> SummaryCompare(key[2], key[3], x, y)
      [] key[1] = "key" -> CompareKeys(x[1], y[1], 1)
      [] OTHER -> CompareIndexKeys(x, y)

\* Array.prototype.sort with a comparator: a stable sort (merge sort).
\* A negative comparison puts x first, a positive one y, zero keeps their order.
RECURSIVE Merge(_, _, _, _, _, _)
Merge(a, b, i, j, key, acc) ==
    IF i > Len(a) THEN acc \o SubSeq(b, j, Len(b))
    ELSE IF j > Len(b) THEN acc \o SubSeq(a, i, Len(a))
    ELSE IF Comparator(key, a[i], b[j]) <= 0
         THEN Merge(a, b, i + 1, j, key, Append(acc, a[i]))
         ELSE Merge(a, b, i, j + 1, key, Append(acc, b[j]))

RECURSIVE sort(_, _)
sort(s, key) ==
    IF Len(s) <= 1 THEN s
    ELSE LET mid == Len(s) \div 2
         IN  Merge(sort(SubSeq(s, 1, mid), key),
                   sort(SubSeq(s, mid + 1, Len(s)), key), 1, 1, key, <<>>)

IsIndexEntry(e) == IsArrayIndex(e[1])
IsNamedEntry(e) == ~IsArrayIndex(e[1])

\* Object.fromEntries followed by Object.entries: the entries whose key is an
\* array index come first in ascending numeric order, then the other entries
\* in insertion order.  (Keys of the entries are distinct here.)
ObjectFromEntries(entries) ==
    sort(SelectSeq(entries, IsIndexEntry), <<"index">>)
        \o SelectSeq(entries, IsNamedEntry)

\* ------------------------------------------------------------------------
\* The parts collection (database path material_summary_2025)
\* ------------------------------------------------------------------------
itemsPerPage == 50
SearchLimit == 10000

ALL == <<"a", "l", "l">>
EmptyString == <<>>
EmptyObject == <<>>

\* Part codes of the small collections, in the key order of the database
\* (array-index keys numerically, then the other keys).
SmallCodes == << <<"2">>, <<"1", "0">>, <<"A", "1">>, <<"a">> >>

\* Part records of the small collections: a missing price, a missing stock
\* quantity, a missing description, a missing supplier.  One record may be
\* stored under several codes, which gives equal prices and quantities.
PartRecords ==
    << [SPRAS_EN |-> <<"B", "a">>, Standard_Price |-> 5,
        Current_Stock_Qty |-> 3, Supplier_Name |-> <<"b">>, Dealer_vs_Std |-> 4],
       [Standard_Price |-> 9, Supplier_Name |-> <<"B">>, Dealer_vs_Std |-> -2],
       [SPRAS_EN |-> <<"a", "b">>, Current_Stock_Qty |-> 7] >>

\* The collection that holds SmallCodes[i] with record PartRecords[f[i]]
\* wherever f[i] > 0.
SmallStore(f) ==
    LET present == SelectSeq([i \in 1..Len(SmallCodes) |-> i], LAMBDA i : f[i] > 0)
    IN  [k \in 1..Len(present) |->
            <<SmallCodes[present[k]], PartRecords[f[present[k]]]>>]

SmallStores == {SmallStore(f) : f \in [1..Len(SmallCodes) -> 0..Len(PartRecords)]}

\* The large collection: n filler parts p000, p001, ...
FillerCode(i) ==
    <<"p", DigitChars[((i \div 100) % 10) + 1], DigitChars[((i \div 10) % 10) + 1],
      DigitChars[(i % 10) + 1]>>
FillerPart(i) ==
    [SPRAS_EN |-> <<"b">>, Standard_Price |-> (i * 3) % 7, Current_Stock_Qty |-> i % 3,
     Supplier_Name |-> IF i % 2 = 0 THEN <<"b">> ELSE <<"B">>]
LargeStore(n) == [i \in 1..n |-> <<FillerCode(i - 1), FillerPart(i - 1)>>]

\* The collections the catalogue page is run against: the small collections
\* over the codes 2, 10 and a, and the large collection.
Stores == {SmallStore(f) : f \in {g \in [1..Len(SmallCodes) -> 0..Len(PartRecords)] : g[3] = 0}}
              \cup {LargeStore(MaxFill)}
Queries == {EmptyString, <<"a">>}

\* ------------------------------------------------------------------------
\* FirebaseService: reads of the parts collection
\* ------------------------------------------------------------------------
\* getAllParts: the whole collection, or {} when the read fails.
getAllParts(db, ok) == IF ok THEN db ELSE EmptyObject

\* Mutant of matchesSearch: the part code is compared without lower-casing.
matchesSearch_caseSensitiveCode(material, part, searchLower) ==
    LET matchesMaterial == includes(material, searchLower)
        matchesDescription == includes(toLowerCase(OrString(part, "SPRAS_EN")), searchLower)
        matchesSupplier == includes(toLowerCase(OrString(part, "Supplier_Name")), searchLower)
    IN  matchesMaterial \/ matchesDescription \/ matchesSupplier

\* The three case-insensitive substring tests of searchParts.
matchesSearch(material, part, searchLower) ==
    LET matchesMaterial == includes(toLowerCase(material), searchLower)
        matchesDescription == includes(toLowerCase(OrString(part, "SPRAS_EN")), searchLower)
        matchesSupplier == includes(toLowerCase(OrString(part, "Supplier_Name")), searchLower)
    IN  matchesMaterial \/ matchesDescription \/ matchesSupplier

\* The forEach loop of searchParts over Object.entries(allParts).
RECURSIVE searchLoop(_, _, _, _, _, _)
searchLoop(entries, i, searchLower, limit, count, filtered) ==
    IF i > Len(entries) THEN filtered
    ELSE IF count >= limit THEN searchLoop(entries, i + 1, searchLower, limit, count, filtered)
    ELSE IF matchesSearch(entries[i][1], entries[i][2], searchLower)
         THEN searchLoop(entries, i + 1, searchLower, limit, count + 1,
                         Append(filtered, entries[i]))
         ELSE searchLoop(entries, i + 1, searchLower, limit, count, filtered)

\* searchParts(searchTerm, limit); ok tells whether the read of the store
\* succeeds.
searchParts(db, searchTerm, limit, ok) ==
    IF searchTerm = EmptyString
    THEN IF ok THEN slice(db, 0, limit) ELSE EmptyObject
    ELSE ObjectFromEntries(
             searchLoop(getAllParts(db, ok), 1, toLowerCase(searchTerm), limit, 0, <<>>))

\* ------------------------------------------------------------------------
\* Catalogue page (PartsCataloguePage)
\* ------------------------------------------------------------------------
\* Mutants of matchesStock: the flag is ignored; a missing quantity passes.
matchesStock_ignoresFlag(part, stockOnly) ==
    OrNumber(part, "Current_Stock_Qty") > 0
matchesStock_missingPasses(part, stockOnly) ==
    ~stockOnly \/ "Current_Stock_Qty" \notin DOMAIN part \/ part["Current_Stock_Qty"] > 0

matchesStock(part, stockOnly) ==
    ~stockOnly \/ OrNumber(part, "Current_Stock_Qty") > 0

matchesSupplier(part, supplier) ==
    supplier = ALL \/ ("Supplier_Name" \in DOMAIN part /\ part["Supplier_Name"] = supplier)

\* The filter step of filteredAndSortedParts.
FilterParts(parts, supplier, stockOnly) ==
    SelectSeq(parts, LAMBDA e : matchesSupplier(e[2], supplier) /\ matchesStock(e[2], stockOnly))

\* The useMemo filteredAndSortedParts: entries of allParts, filtered, sorted.
FilteredAndSorted(parts, supplier, sortKey, stockOnly) ==
    sort(FilterParts(parts, supplier, stockOnly), <<"catalogue", sortKey>>)

\* Mutant of PageSlice: the slice ends one record early.
PageSlice_shortEnd(fs, page, perPage) ==
    slice(fs, (page - 1) * perPage, (page - 1) * perPage + perPage - 1)

\* paginatedParts of the pagination effect.
PageSlice(fs, page, perPage) ==
    slice(fs, (page - 1) * perPage, (page - 1) * perPage + perPage)

\* The suppliers offered by the supplier select.
Suppliers(parts) ==
    {parts[i][2]["Supplier_Name"] :
        i \in {j \in 1..Len(parts) : OrString(parts[j][2], "Supplier_Name") # EmptyString}}

VARIABLES
    store,                  \* the parts collection in the database
    allParts,               \* catalogue: useState allParts
    debouncedSearchTerm,    \* catalogue: the debounced search term
    inFlight,               \* catalogue: fetches of the load effect not yet resolved
    loading,                \* catalogue: useState loading
    isSearching,            \* catalogue: useState isSearching
    selectedSupplier,       \* catalogue: useState selectedSupplier
    sortBy,                 \* catalogue: useState sortBy
    showInStockOnly,        \* catalogue: useState showInStockOnly
    currentPage,            \* catalogue: useState currentPage
    filteredAndSortedParts, \* catalogue: the memoised filtered and sorted entries
    displayedParts,         \* catalogue: useState displayedParts
    totalPages,             \* catalogue: useState totalPages
    summaryParts,           \* summary: useState parts
    summaryLoading,         \* summary: useState loading
    summarySearchTerm,      \* summary: the debounced search term
    summarySupplier,        \* summary: useState selectedSupplier
    selectedMarginFilter,   \* summary: useState selectedMarginFilter
    sortField,              \* summary: useState sortField
    sortDirection,          \* summary: useState sortDirection
    summaryPage,            \* summary: useState currentPage
    svcCalled,              \* search: searchParts has been called
    svcSearchTerm,          \* search: its searchTerm argument
    svcLimit,               \* search: its limit argument
    svcReadOk,              \* search: whether its read of the store succeeded
    svcResult,              \* search: the mapping it returned
    applications,           \* application page: useState applications
    formData,               \* application page: useState formData
    isSubmitting,           \* application page: useState isSubmitting
    message,                \* application page: useState message
    pdfInFlight,            \* application page: a downloadPDF call awaits the PDF
    now,                    \* application page: the clock read by new Date()
    assignedIds,            \* history: the ticket ids generateTicketId has handed out
    appStore,               \* the PartApplications collection in the database
    pushCount,              \* keys handed out by push() so far
    call,                   \* the last call of FirebaseService and how it ended
    partsData,              \* the Parts collection in the database
    updaters,               \* the calls of updatePartData, one per caller
    bomStore,               \* the BoM collection in the database
    bomModels,              \* BoM page: useState bomModels
    selectedModel,          \* BoM page: useState selectedModel
    bomComponents,          \* BoM page: useState bomComponents
    bomParts,               \* BoM page: useState parts, the enrichment mapping
    bomLoading,             \* BoM page: useState loading
    loadingComponents,      \* BoM page: useState loadingComponents
    bomLoads,               \* BoM page: the runs of loadBoMComponents not yet finished
    imageStore,             \* the names of the objects in the storage bucket
    imgMaterial,            \* image: the part whose image the component shows
    currentSrc,             \* image: useState currentSrc
    hasError,               \* image: useState hasError
    attempts,               \* image: useState attempts
    imgStatus,              \* image: what the <img> element is doing
    requested,              \* history: the sources the <img> has requested for the part
    failed,                 \* history: the sources whose load has failed for the part
    pdfApplication,         \* PDF: the application argument of generateApplicationPDF
    pdfLanguage,            \* PDF: its language argument
    pdfDoc,                 \* PDF: the jsPDF document, its pages and yPosition
    pdfPhase,               \* PDF: where the call of generateApplicationPDF is
    adminParts,             \* admin page: useState parts
    adminLoading,           \* admin page: loadParts has not resolved yet
    selectedPart,           \* admin page: useState selectedPart
    adminForm,              \* admin page: useState notes, year, obsoletedDate, alternativeParts
    isSaving,               \* admin page: useState isSaving
    adminMessage,           \* admin page: useState message
    pgTotalPages,           \* pagination controls: the totalPages they are rendered with
    pgCurrentPage,          \* pagination controls: the currentPage they are rendered with
    pgButtons               \* pagination controls: the numbered buttons rendered

catalogueVars ==
    <<store, allParts, debouncedSearchTerm, inFlight, loading, isSearching,
      selectedSupplier, sortBy, showInStockOnly, currentPage,
      filteredAndSortedParts, displayedParts, totalPages>>

summaryVars ==
    <<summaryParts, summaryLoading, summarySearchTerm, summarySupplier,
      selectedMarginFilter, sortField, sortDirection, summaryPage>>

searchVars == <<svcCalled, svcSearchTerm, svcLimit, svcReadOk, svcResult>>

ticketVars ==
    <<applications, formData, isSubmitting, message, pdfInFlight, now, assignedIds>>

appStoreVars == <<appStore, pushCount>>

partsDataVars == <<partsData, updaters>>

bomVars ==
    <<bomStore, bomModels, selectedModel, bomComponents, bomParts, bomLoading,
      loadingComponents, bomLoads>>

imageVars ==
    <<imageStore, imgMaterial, currentSrc, hasError, attempts, imgStatus, requested,
      failed>>

\* The variables of the parts introduced after the ticket store.
pdfVars == <<pdfApplication, pdfLanguage, pdfDoc, pdfPhase>>

adminVars == <<adminParts, adminLoading, selectedPart, adminForm, isSaving, adminMessage>>

pgVars == <<pgTotalPages, pgCurrentPage, pgButtons>>

restVars == <<partsDataVars, bomVars, imageVars, pdfVars, adminVars, pgVars>>

vars ==
    <<catalogueVars, summaryVars, searchVars, ticketVars, appStoreVars, call,
      restVars>>

SortKeys == {"material", "price", "stock", "supplier"}

InFlightCount == inFlight[EmptyString] + inFlight[<<"a">>]

\* The render that follows a state change: the memo is recomputed and the
\* pagination effect stores the page and the page count.
Render(parts, supplier, sortKey, stockOnly, page) ==
    LET fs == FilteredAndSorted(parts, supplier, sortKey, stockOnly)
    IN  /\ filteredAndSortedParts' = fs
        /\ displayedParts' = ObjectFromEntries(PageSlice(fs, page, itemsPerPage))
        /\ totalPages' = ceilDiv(Len(fs), itemsPerPage)

\* The pagination effect alone (the memo's dependencies did not change).
PaginationEffect(page) ==
    /\ filteredAndSortedParts' = filteredAndSortedParts
    /\ displayedParts' =
           ObjectFromEntries(PageSlice(filteredAndSortedParts, page, itemsPerPage))
    /\ totalPages' = ceilDiv(Len(filteredAndSortedParts), itemsPerPage)

\* Mount: the load effect starts the first fetch (empty search term).
CatalogueInitIn(stores) ==
    /\ store \in stores
    /\ allParts = EmptyObject
    /\ debouncedSearchTerm = EmptyString
    /\ inFlight = [q \in Queries |-> IF q = EmptyString THEN 1 ELSE 0]
    /\ loading = TRUE
    /\ isSearching = FALSE
    /\ selectedSupplier = ALL
    /\ sortBy = "material"
    /\ showInStockOnly = FALSE
    /\ currentPage = 1
    /\ filteredAndSortedParts = <<>>
    /\ displayedParts = EmptyObject
    /\ totalPages = 0

CatalogueInit == CatalogueInitIn(Stores)

\* Mutant of DebouncedSearchChange: without the page-reset effect.
DebouncedSearchChange_keepingPage(q) ==
    /\ ~loading
    /\ q # debouncedSearchTerm
    /\ InFlightCount < MaxInFlight
    /\ debouncedSearchTerm' = q
    /\ IF q # EmptyString
       THEN isSearching' = TRUE /\ loading' = loading
       ELSE loading' = TRUE /\ isSearching' = isSearching
    /\ inFlight' = [inFlight EXCEPT ![q] = @ + 1]
    /\ UNCHANGED <<store, allParts, selectedSupplier, sortBy, showInStockOnly, currentPage,
                   filteredAndSortedParts, displayedParts, totalPages>>

\* The debounced search term changes: the load effect starts a fetch and the
\* page-reset effect sets the page to 1.
DebouncedSearchChange(q) ==
    /\ ~loading
    /\ q # debouncedSearchTerm
    /\ InFlightCount < MaxInFlight
    /\ debouncedSearchTerm' = q
    /\ IF q # EmptyString
       THEN isSearching' = TRUE /\ loading' = loading
       ELSE loading' = TRUE /\ isSearching' = isSearching
    /\ inFlight' = [inFlight EXCEPT ![q] = @ + 1]
    /\ currentPage' = 1
    /\ PaginationEffect(1)
    /\ UNCHANGED <<store, allParts, selectedSupplier, sortBy, showInStockOnly>>

\* A fetch of the load effect resolves: setAllParts, then the finally block.
LoadResolve(q, ok) ==
    /\ inFlight[q] > 0
    /\ inFlight' = [inFlight EXCEPT ![q] = @ - 1]
    /\ allParts' = IF q # EmptyString
                   THEN searchParts(store, q, SearchLimit, ok)
                   ELSE getAllParts(store, ok)
    /\ loading' = FALSE
    /\ isSearching' = FALSE
    /\ Render(allParts', selectedSupplier, sortBy, showInStockOnly, currentPage)
    /\ UNCHANGED <<store, debouncedSearchTerm, selectedSupplier, sortBy,
                   showInStockOnly, currentPage>>

SetSelectedSupplier(s) ==
    /\ ~loading
    /\ s \in {ALL} \cup Suppliers(allParts)
    /\ s # selectedSupplier
    /\ selectedSupplier' = s
    /\ Render(allParts, s, sortBy, showInStockOnly, currentPage)
    /\ UNCHANGED <<store, allParts, debouncedSearchTerm, inFlight, loading,
                   isSearching, sortBy, showInStockOnly, currentPage>>

SetSortBy(k) ==
    /\ ~loading
    /\ k # sortBy
    /\ sortBy' = k
    /\ Render(allParts, selectedSupplier, k, showInStockOnly, currentPage)
    /\ UNCHANGED <<store, allParts, debouncedSearchTerm, inFlight, loading,
                   isSearching, selectedSupplier, showInStockOnly, currentPage>>

SetShowInStockOnly(checked) ==
    /\ ~loading
    /\ checked # showInStockOnly
    /\ showInStockOnly' = checked
    /\ Render(allParts, selectedSupplier, sortBy, checked, currentPage)
    /\ UNCHANGED <<store, allParts, debouncedSearchTerm, inFlight, loading,
                   isSearching, selectedSupplier, sortBy, currentPage>>

Max(a, b) == IF a > b THEN a ELSE b
Min(a, b) == IF a < b THEN a ELSE b

\* Mutant of PageButtons: the window is centred on the page, unclamped.
PageButtons_centred(total, page) ==
    {n \in {(page - 2) + i : i \in 0..(Min(5, total) - 1)} : n <= total}

\* The numbered page buttons of the pagination controls.
PageButtons(total, page) ==
    {n \in {Max(1, Min(total - 4, page - 2)) + i : i \in 0..(Min(5, total) - 1)} :
        n <= total}

\* A pagination button is clicked; target is the page it sets.
GoToPage(target) ==
    /\ ~loading
    /\ totalPages > 1
    /\ target # currentPage
    /\ currentPage' = target
    /\ PaginationEffect(target)
    /\ UNCHANGED <<store, allParts, debouncedSearchTerm, inFlight, loading,
                   isSearching, selectedSupplier, sortBy, showInStockOnly>>

FirstPage == currentPage # 1 /\ GoToPage(1)
PreviousPage == currentPage # 1 /\ GoToPage(Max(1, currentPage - 1))
NumberedPage == \E n \in PageButtons(totalPages, currentPage) : GoToPage(n)
NextPage == currentPage # totalPages /\ GoToPage(Min(totalPages, currentPage + 1))
LastPage == currentPage # totalPages /\ GoToPage(totalPages)

CatalogueNext ==
    \/ \E q \in Queries : DebouncedSearchChange(q)
    \/ \E q \in Queries, ok \in BOOLEAN : LoadResolve(q, ok)
    \/ \E s \in {ALL, <<"b">>, <<"B">>} : SetSelectedSupplier(s)
    \/ \E k \in SortKeys : SetSortBy(k)
    \/ \E checked \in BOOLEAN : SetShowInStockOnly(checked)
    \/ FirstPage
    \/ PreviousPage
    \/ NumberedPage
    \/ NextPage
    \/ LastPage

\* The pagination controls alone, rendered for a page count and a page.
MaxPages == 15

PgInitIn(renders) ==
    /\ \E render \in renders : pgTotalPages = render[1] /\ pgCurrentPage = render[2]
    /\ pgButtons = PageButtons(pgTotalPages, pgCurrentPage)

PgInit == PgInitIn({<<2, 1>>})

\* setCurrentPage of a button of the controls, and the render after it.
PgSetCurrentPage(target) ==
    /\ pgTotalPages > 1
    /\ pgCurrentPage' = target
    /\ pgButtons' = PageButtons(pgTotalPages, target)
    /\ UNCHANGED pgTotalPages

PgFirst == pgCurrentPage # 1 /\ PgSetCurrentPage(1)
PgPrevious == pgCurrentPage # 1 /\ PgSetCurrentPage(Max(1, pgCurrentPage - 1))
PgNumbered == \E n \in pgButtons : PgSetCurrentPage(n)
PgNext == pgCurrentPage # pgTotalPages /\ PgSetCurrentPage(Min(pgTotalPages, pgCurrentPage + 1))
PgLast == pgCurrentPage # pgTotalPages /\ PgSetCurrentPage(pgTotalPages)

PgControlsNext == PgFirst \/ PgPrevious \/ PgNumbered \/ PgNext \/ PgLast

\* ------------------------------------------------------------------------
\* Summary page (PartsSummaryPage)
\* ------------------------------------------------------------------------
SortFields == {"Material", "Standard_Price", "Invoice_Amount_2025"}
MarginFilters == {"all", "positive", "negative", "zero"}

\* Object.entries(partsData).map(([material, part]) => ({...part, Material})).
WithMaterial(entries) ==
    [i \in 1..Len(entries) |-> ("Material" :> entries[i][1]) @@ entries[i][2]]

summaryMatchesSearch(part, term) ==
    \/ term = EmptyString
    \/ includes(toLowerCase(OrString(part, "Material")), toLowerCase(term))
    \/ includes(toLowerCase(OrString(part, "SPRAS_EN")), toLowerCase(term))
    \/ includes(toLowerCase(OrString(part, "Supplier_Name")), toLowerCase(term))

summaryMatchesSupplier(part, supplier) ==
    supplier = ALL \/ ("Supplier_Name" \in DOMAIN part /\ part["Supplier_Name"] = supplier)

matchesMargin(part, filter) ==
    \/ filter = "all"
    \/ (filter = "positive" /\ OrNumber(part, "Dealer_vs_Std") > 0)
    \/ (filter = "negative" /\ OrNumber(part, "Dealer_vs_Std") < 0)
    \/ (filter = "zero" /\ OrNumber(part, "Dealer_vs_Std") = 0)

\* The filter step of the summary page's filteredAndSortedParts.
SummaryFilter(parts, term, supplier, margin) ==
    SelectSeq(parts, LAMBDA part : /\ summaryMatchesSearch(part, term)
                                   /\ summaryMatchesSupplier(part, supplier)
                                   /\ matchesMargin(part, margin))

\* The useMemo filteredAndSortedParts of the summary page.
SummaryFilteredAndSorted(parts, term, supplier, margin, field, direction) ==
    sort(SummaryFilter(parts, term, supplier, margin), <<"summary", field, direction>>)

summaryFiltered ==
    SummaryFilteredAndSorted(summaryParts, summarySearchTerm, summarySupplier,
                             selectedMarginFilter, sortField, sortDirection)
summaryTotalPages == ceilDiv(Len(summaryFiltered), itemsPerPage)
summaryPaginatedParts == PageSlice(summaryFiltered, summaryPage, itemsPerPage)

SummarySuppliers(parts) ==
    {parts[i]["Supplier_Name"] :
        i \in {j \in 1..Len(parts) : OrString(parts[j], "Supplier_Name") # EmptyString}}

\* Mount: loading is true and the load effect has called getAllParts.
SummaryInit ==
    /\ summaryParts = <<>>
    /\ summaryLoading = TRUE
    /\ summarySearchTerm = EmptyString
    /\ summarySupplier = ALL
    /\ selectedMarginFilter = "all"
    /\ sortField = "Invoice_Amount_2025"
    /\ sortDirection = "desc"
    /\ summaryPage = 1

\* getAllParts resolves: setParts, then the finally block.
SummaryLoadResolve(ok) ==
    /\ summaryLoading
    /\ summaryParts' = WithMaterial(getAllParts(store, ok))
    /\ summaryLoading' = FALSE
    /\ UNCHANGED <<summarySearchTerm, summarySupplier, selectedMarginFilter,
                   sortField, sortDirection, summaryPage>>

SummarySearchChange(q) ==
    /\ ~summaryLoading
    /\ q # summarySearchTerm
    /\ summarySearchTerm' = q
    /\ UNCHANGED <<summaryParts, summaryLoading, summarySupplier, selectedMarginFilter,
                   sortField, sortDirection, summaryPage>>

SummarySetSupplier(s) ==
    /\ ~summaryLoading
    /\ s \in {ALL} \cup SummarySuppliers(summaryParts)
    /\ s # summarySupplier
    /\ summarySupplier' = s
    /\ UNCHANGED <<summaryParts, summaryLoading, summarySearchTerm, selectedMarginFilter,
                   sortField, sortDirection, summaryPage>>

SetSelectedMarginFilter(f) ==
    /\ ~summaryLoading
    /\ f # selectedMarginFilter
    /\ selectedMarginFilter' = f
    /\ UNCHANGED <<summaryParts, summaryLoading, summarySearchTerm, summarySupplier,
                   sortField, sortDirection, summaryPage>>

\* A column header is clicked.
handleSort(field) ==
    /\ ~summaryLoading
    /\ IF field = sortField
       THEN /\ sortDirection' = (IF sortDirection = "asc" THEN "desc" ELSE "asc")
            /\ sortField' = sortField
       ELSE /\ sortField' = field
            /\ sortDirection' = "desc"
    /\ UNCHANGED <<summaryParts, summaryLoading, summarySearchTerm, summarySupplier,
                   selectedMarginFilter, summaryPage>>

\* A button of the summary page's pagination controls; target is its page.
SummaryGoToPage(target) ==
    /\ ~summaryLoading
    /\ summaryTotalPages > 1
    /\ target # summaryPage
    /\ summaryPage' = target
    /\ UNCHANGED <<summaryParts, summaryLoading, summarySearchTerm, summarySupplier,
                   selectedMarginFilter, sortField, sortDirection>>

SummaryPreviousPage == summaryPage # 1 /\ SummaryGoToPage(Max(1, summaryPage - 1))
SummaryNumberedPage ==
    \E n \in (1..Min(5, summaryTotalPages)) \cup {summaryTotalPages} : SummaryGoToPage(n)
SummaryNextPage ==
    summaryPage # summaryTotalPages /\ SummaryGoToPage(Min(summaryTotalPages, summaryPage + 1))

SummaryNext ==
    \/ \E ok \in BOOLEAN : SummaryLoadResolve(ok)
    \/ \E q \in Queries : SummarySearchChange(q)
    \/ \E s \in {ALL, <<"b">>, <<"B">>} : SummarySetSupplier(s)
    \/ \E f \in MarginFilters : SetSelectedMarginFilter(f)
    \/ \E field \in SortFields : handleSort(field)
    \/ SummaryPreviousPage
    \/ SummaryNumberedPage
    \/ SummaryNextPage

\* ------------------------------------------------------------------------
\* Calls of FirebaseService.searchParts
\* ------------------------------------------------------------------------
\* Limit arguments of the modelled calls: 0..MaxLimit.
MaxLimit == 3
SearchTerms == {EmptyString, <<"a">>, <<"B">>, <<"1">>, <<"a", "b">>}

SearchInit ==
    /\ svcCalled = FALSE
    /\ svcSearchTerm = EmptyString
    /\ svcLimit = 0
    /\ svcReadOk = TRUE
    /\ svcResult = EmptyObject

\* searchParts(term, limit) is called and returns.
SearchPartsCall(term, limit, ok) ==
    /\ svcCalled' = TRUE
    /\ svcSearchTerm' = term
    /\ svcLimit' = limit
    /\ svcReadOk' = ok
    /\ svcResult' = searchParts(store, term, limit, ok)

SearchNext ==
    \E term \in SearchTerms, limit \in 0..MaxLimit, ok \in BOOLEAN :
        SearchPartsCall(term, limit, ok)

\* ------------------------------------------------------------------------
\* Part-application page (PartApplicationPage)
\* ------------------------------------------------------------------------
\* Instants the clock may reach: 0..MaxClock.
MaxClock == 1
\* Calls of submitPartApplication.
MaxStored == 2

Alice == <<"A", "l", "i", "c", "e">>
Eng == <<"E", "n", "g">>
Bolt == <<"b", "o", "l", "t">>
One == <<"1">>
Urgent == <<"u", "r", "g", "e", "n", "t">>

\* The initial form (useState formData, and resetForm).
InitialForm ==
    [requestedBy |-> EmptyString, department |-> EmptyString, priority |-> "medium",
     quantity |-> EmptyString, specifications |-> EmptyString, supplier |-> EmptyString,
     estimatedCost |-> EmptyString, deliveryDate |-> EmptyString, notes |-> EmptyString]

\* What the user may type into the text inputs of the form.
TypedValues ==
    [requestedBy |-> {EmptyString, Alice}, department |-> {EmptyString, Eng},
     quantity |-> {EmptyString, One}, specifications |-> {EmptyString, Bolt},
     notes |-> {EmptyString, Urgent}]

NoMessage == [type |-> "none", text |-> <<>>]
RequiredFieldsMessage == [type |-> "error", text |-> <<"Please fill in all required fields">>]
SubmittedMessage(ticketId) ==
    [type |-> "success", text |-> <<"Part application ", ticketId, " submitted successfully!">>]
PdfDownloadedMessage == [type |-> "success", text |-> <<"PDF downloaded successfully">>]
PdfFailedMessage == [type |-> "error", text |-> <<"Failed to generate PDF">>]

\* Number.prototype.toString for n >= 0.
RECURSIVE numberToString(_)
numberToString(n) ==
    IF n < 10 THEN <<DigitChars[n + 1]>>
    ELSE Append(numberToString(n \div 10), DigitChars[(n % 10) + 1])

\* String.prototype.padStart(width, "0").
RECURSIVE padStart(_, _)
padStart(str, width) == IF Len(str) >= width THEN str ELSE padStart(<<"0">> \o str, width)

\* Mutant of generateTicketId: the number does not follow the list length.
generateTicketId_constant(apps) ==
    <<"P", "a", "r", "t">> \o padStart(numberToString(1), 2)

\* generateTicketId of the page: Part01, Part02, ...
generateTicketId(apps) ==
    LET nextNumber == Len(apps) + 1
    IN  <<"P", "a", "r", "t">> \o padStart(numberToString(nextNumber), 2)

\* Mutant of requiredFieldsFilled: the department is not checked.
requiredFieldsFilled_noDepartment(form) ==
    /\ form.requestedBy # EmptyString
    /\ form.quantity # EmptyString
    /\ form.specifications # EmptyString

\* The validation of handleSubmit.
requiredFieldsFilled(form) ==
    /\ form.requestedBy # EmptyString
    /\ form.department # EmptyString
    /\ form.quantity # EmptyString
    /\ form.specifications # EmptyString

\* Mutant of addApplication: the new ticket is put in front.
addApplication_inFront(prev, application) == <<application>> \o prev

\* The updater of setApplications: [...prev, newApplication].
addApplication(prev, application) == Append(prev, application)

\* Mutant of newApplication: the ticket is created already approved.
newApplication_approved(form, ticketId, time) ==
    [requestedBy |-> form.requestedBy, department |-> form.department,
     priority |-> form.priority, quantity |-> form.quantity,
     specifications |-> form.specifications, supplier |-> form.supplier,
     estimatedCost |-> form.estimatedCost, deliveryDate |-> form.deliveryDate,
     notes |-> form.notes,
     ticketId |-> ticketId, submittedAt |-> time, status |-> "approved"]

\* newApplication of handleSubmit: the form with ticket id, time and status.
newApplication(form, ticketId, time) ==
    [requestedBy |-> form.requestedBy, department |-> form.department,
     priority |-> form.priority, quantity |-> form.quantity,
     specifications |-> form.specifications, supplier |-> form.supplier,
     estimatedCost |-> form.estimatedCost, deliveryDate |-> form.deliveryDate,
     notes |-> form.notes,
     ticketId |-> ticketId, submittedAt |-> time, status |-> "pending"]

\* FirebaseService.getPartApplication: the record stored under the ticket id,
\* or null; a failed read gives null.
Null == [ticket_id |-> <<"null">>]
getPartApplication(db, ticketId, ok) ==
    IF ok /\ \E i \in 1..Len(db) : db[i][1] = ticketId
    THEN Lookup(db, ticketId)
    ELSE Null

TicketInit ==
    /\ applications = <<>>
    /\ formData = InitialForm
    /\ isSubmitting = FALSE
    /\ message = NoMessage
    /\ pdfInFlight = FALSE
    /\ now = 0
    /\ assignedIds = {}

\* Time passes.
Tick ==
    /\ now < MaxClock
    /\ now' = now + 1
    /\ UNCHANGED <<applications, formData, isSubmitting, message, pdfInFlight,
                   assignedIds>>

\* onChange of a text input of the form.
ChangeField(field, value) ==
    /\ value # formData[field]
    /\ formData' = [formData EXCEPT ![field] = value]
    /\ UNCHANGED <<applications, isSubmitting, message, pdfInFlight, now, assignedIds>>

\* The form is submitted (the submit button is disabled while isSubmitting).
handleSubmit ==
    /\ ~isSubmitting
    /\ IF ~requiredFieldsFilled(formData)
       THEN /\ message' = RequiredFieldsMessage
            /\ UNCHANGED <<applications, formData, isSubmitting, assignedIds>>
       ELSE /\ Len(applications) < MaxTickets
            /\ LET ticketId == generateTicketId(applications)
               IN  /\ applications' =
                          addApplication(applications,
                                         newApplication(formData, ticketId, now))
                   /\ message' = SubmittedMessage(ticketId)
                   /\ assignedIds' = assignedIds \cup {ticketId}
            /\ formData' = InitialForm
            /\ isSubmitting' = FALSE
    /\ UNCHANGED <<pdfInFlight, now>>

\* The timer of showMessage fires.
MessageTimeout ==
    /\ message # NoMessage
    /\ message' = NoMessage
    /\ UNCHANGED <<applications, formData, isSubmitting, pdfInFlight, now, assignedIds>>

\* The download button of a listed application is clicked.
downloadPDF ==
    /\ ~isSubmitting
    /\ Len(applications) > 0
    /\ isSubmitting' = TRUE
    /\ pdfInFlight' = TRUE
    /\ UNCHANGED <<applications, formData, message, now, assignedIds>>

\* generateApplicationPDF resolves or rejects.
downloadPDFDone(ok) ==
    /\ pdfInFlight
    /\ pdfInFlight' = FALSE
    /\ message' = IF ok THEN PdfDownloadedMessage ELSE PdfFailedMessage
    /\ isSubmitting' = FALSE
    /\ UNCHANGED <<applications, formData, now, assignedIds>>

\* The user leaves the page for another route and comes back: React Router
\* unmounts the page, and the next mount starts from the useState initial
\* values. A PDF still being generated reports to the unmounted page.
Remount ==
    /\ <<applications, formData, isSubmitting, message, pdfInFlight>>
           # <<<<>>, InitialForm, FALSE, NoMessage, FALSE>>
    /\ applications' = <<>>
    /\ formData' = InitialForm
    /\ isSubmitting' = FALSE
    /\ message' = NoMessage
    /\ pdfInFlight' = FALSE
    /\ UNCHANGED <<now, assignedIds>>

\* ------------------------------------------------------------------------
\* FirebaseService: ticket operations
\* ------------------------------------------------------------------------
\* Applications handed to submitPartApplication by a caller.
ServiceApplications ==
    {[supplier_name |-> EmptyString, part_description |-> Bolt, part_number |-> One,
      requested_by |-> Alice, department |-> Eng, urgency |-> u,
      technical_specs |-> Bolt, application_notes |-> EmptyString,
      estimated_cost |-> 0, justification |-> EmptyString, status |-> "pending"]
        : u \in {"high"}}

\* How a call of FirebaseService ended: it returned a value, or it threw.
NoCall == [op |-> "none", ok |-> TRUE, outcome |-> "none", value |-> <<>>]
Returned(op, ok, value) == [op |-> op, ok |-> ok, outcome |-> "returned", value |-> value]
Thrown(op) == [op |-> op, ok |-> FALSE, outcome |-> "thrown", value |-> <<>>]

\* The key of the reference push() returns: unique among the keys handed out.
pushKey(n) == <<"-", "K">> \o numberToString(n)

\* fullApplication of submitPartApplication.
fullApplication(application, ticketId, time) ==
    [supplier_name |-> application.supplier_name,
     part_description |-> application.part_description,
     part_number |-> application.part_number,
     requested_by |-> application.requested_by,
     department |-> application.department,
     urgency |-> application.urgency,
     technical_specs |-> application.technical_specs,
     application_notes |-> application.application_notes,
     estimated_cost |-> application.estimated_cost,
     justification |-> application.justification,
     status |-> application.status,
     ticket_id |-> ticketId, created_at |-> time]

\* submitPartApplication whose catch logs the error and returns the key.
submitPartApplication_swallowing(application, time, ok) ==
    /\ pushCount < MaxStored
    /\ pushCount' = pushCount + 1
    /\ appStore' = IF ok
                   THEN Append(appStore,
                               <<pushKey(pushCount),
                                 fullApplication(application, pushKey(pushCount), time)>>)
                   ELSE appStore
    /\ call' = Returned("submitPartApplication", ok, pushKey(pushCount))

\* submitPartApplication(application): set() succeeds and the key is
\* returned, or it fails and the error is thrown again.
submitPartApplication(application, time, ok) ==
    /\ pushCount < MaxStored
    /\ pushCount' = pushCount + 1
    /\ appStore' = IF ok
                   THEN Append(appStore,
                               <<pushKey(pushCount),
                                 fullApplication(application, pushKey(pushCount), time)>>)
                   ELSE appStore
    /\ call' = IF ok THEN Returned("submitPartApplication", ok, pushKey(pushCount))
                     ELSE Thrown("submitPartApplication")

\* snapshot.val() of a node: an object whose keys are in key order, whatever
\* the order of the query; null (here the empty object) when there is none.
SnapshotVal(db) == sort(db, <<"key">>)

\* getAllPartApplications: the values of the snapshot, reversed; [] when
\* there is no data or the read fails.
getAllPartApplications(db, ok) ==
    IF ~ok THEN <<>>
    ELSE LET data == SnapshotVal(db)
         IN  IF data = EmptyObject THEN <<>> ELSE reverse(ObjectValues(data))

GetAllPartApplicationsCall(ok) ==
    /\ call' = Returned("getAllPartApplications", ok, getAllPartApplications(appStore, ok))
    /\ UNCHANGED appStoreVars

GetPartApplicationCall(ticketId, ok) ==
    /\ call' = Returned("getPartApplication", ok,
                        <<ticketId, getPartApplication(appStore, ticketId, ok)>>)
    /\ UNCHANGED appStoreVars

\* The instants Date.now() may give in the browser that calls
\* submitPartApplication.
Instants == 0..MaxClock

AppStoreNext ==
    \/ \E application \in ServiceApplications, time \in Instants, ok \in BOOLEAN :
           submitPartApplication(application, time, ok)
    \/ \E ok \in BOOLEAN : GetAllPartApplicationsCall(ok)
    \/ \E n \in 0..MaxStored, ok \in BOOLEAN : GetPartApplicationCall(pushKey(n), ok)

\* The collection after n calls of submitPartApplication that all succeeded at
\* instant 0.
RECURSIVE StoreAfter(_)
StoreAfter(n) ==
    IF n = 0 THEN EmptyObject
    ELSE Append(StoreAfter(n - 1),
                <<pushKey(n - 1),
                  fullApplication(CHOOSE a \in ServiceApplications : TRUE,
                                  pushKey(n - 1), 0)>>)

AppStoreInitIn(counts) ==
    /\ pushCount \in counts
    /\ appStore = StoreAfter(pushCount)
    /\ call = NoCall

AppStoreInit == AppStoreInitIn({0})

TicketNext ==
    \/ Tick
    \/ \E field \in DOMAIN TypedValues : \E value \in TypedValues[field] :
           ChangeField(field, value)
    \/ handleSubmit
    \/ MessageTimeout
    \/ downloadPDF
    \/ \E ok \in BOOLEAN : downloadPDFDone(ok)
    \/ Remount

\* ------------------------------------------------------------------------
\* FirebaseService: updatePartData
\* ------------------------------------------------------------------------
\* Callers of updatePartData that may be running at the same time.
MaxCallers == 2

Old == <<"o", "l", "d">>
New == <<"n", "e", "w">>
Year2020 == <<"2", "0", "2", "0">>
Year2024 == <<"2", "0", "2", "4">>
CodeA1 == <<"A", "1">>
CodeB == <<"B">>

\* The value undefined of a property that is present.
Undefined == <<"undefined">>

\* A record without fields: what spreading null gives.
NoFields == [f \in {} |-> EmptyString]

\* The Parts collection before the calls.
InitialPartsData ==
    <<<<CodeA1, [SPRAS_EN |-> <<"a", "b">>, notes |-> Old]>>,
      <<CodeB, [SPRAS_EN |-> <<"B", "a">>, year |-> Year2020]>>>>

\* The updates handed to updatePartData: one field, or what the admin page
\* builds from its four inputs, a blank input giving a property whose value
\* is undefined.
UpdatePayloads ==
    {[year |-> Year2024],
     [notes |-> New],
     [notes |-> New, year |-> Undefined, obsoleted_date |-> Undefined,
      alternative_parts |-> Undefined]}

\* { ...a, ...b }: the own properties of a, then those of b over them.
Spread(a, b) ==
    [f \in (DOMAIN a) \cup (DOMAIN b) |-> IF f \in DOMAIN b THEN b[f] ELSE a[f]]

HasKey(db, key) == \E i \in 1..Len(db) : db[i][1] = key

\* snapshot.val() of the child at a key: the record, or null.
ChildVal(db, key) == IF HasKey(db, key) THEN Lookup(db, key) ELSE NoFields

\* set() refuses a value that contains undefined.
ContainsUndefined(value) == \E f \in DOMAIN value : value[f] = Undefined

\* Mutant of SetChild: the value is merged into the record stored at the key.
SetChild_merging(db, key, value) ==
    IF HasKey(db, key)
    THEN [i \in 1..Len(db) |->
             IF db[i][1] = key THEN <<key, Spread(db[i][2], value)>> ELSE db[i]]
    ELSE Append(db, <<key, value>>)

\* set(ref, value): the value replaces what is stored at the key.
SetChild(db, key, value) ==
    IF HasKey(db, key)
    THEN [i \in 1..Len(db) |-> IF db[i][1] = key THEN <<key, value>> ELSE db[i]]
    ELSE Append(db, <<key, value>>)

Idle ==
    [phase |-> "idle", material |-> EmptyString, updates |-> NoFields,
     currentData |-> NoFields, updatedData |-> NoFields, storeOk |-> TRUE]

\* A caller that makes no call.
Absent == [Idle EXCEPT !.phase = "absent"]

PartsDataInitIn(active) ==
    /\ partsData = InitialPartsData
    /\ updaters = [p \in 1..MaxCallers |-> IF p \in active THEN Idle ELSE Absent]

PartsDataInit == PartsDataInitIn(1..MaxCallers)

\* A caller calls updatePartData(material, updates) and get() resolves or
\* rejects.  With the data read, updatedData is built and handed to set(),
\* which throws at once when the value contains undefined.
UpdateRead(p, material, updates, ok) ==
    /\ updaters[p].phase = "idle"
    /\ LET currentData == ChildVal(partsData, material)
           updatedData == Spread(currentData, updates)
           thrown == ~ok \/ ContainsUndefined(updatedData)
       IN  /\ updaters' =
                  [updaters EXCEPT ![p] =
                      [phase |-> IF thrown THEN "thrown" ELSE "writing",
                       material |-> material, updates |-> updates,
                       currentData |-> currentData, updatedData |-> updatedData,
                       storeOk |-> ok]]
           /\ call' = IF thrown THEN Thrown("updatePartData") ELSE call
    /\ UNCHANGED partsData

\* set() resolves or rejects.
UpdateWrite(p, ok) ==
    /\ updaters[p].phase = "writing"
    /\ partsData' = IF ok
                    THEN SetChild(partsData, updaters[p].material, updaters[p].updatedData)
                    ELSE partsData
    /\ updaters' = [updaters EXCEPT ![p].phase = IF ok THEN "done" ELSE "thrown",
                                    ![p].storeOk = ok]
    /\ call' = IF ok THEN Returned("updatePartData", ok, <<>>) ELSE Thrown("updatePartData")

PartsDataNext ==
    \/ \E p \in 1..MaxCallers, material \in {CodeA1, CodeB},
          updates \in UpdatePayloads, ok \in BOOLEAN :
           UpdateRead(p, material, updates, ok)
    \/ \E p \in 1..MaxCallers, ok \in BOOLEAN : UpdateWrite(p, ok)

\* ------------------------------------------------------------------------
\* BoM page (BomReferencePage)
\* ------------------------------------------------------------------------
\* Runs of loadBoMComponents that may be unfinished at the same time.
MaxLoads == 2

ModelA == <<"A">>
ModelB == <<"B">>

\* A child of a model's node that is not an object.
Scalar == [scalar |-> 1]

\* The BoM collection: model A with three components, one of them without
\* fields, and a child that is not an object; model B with one component.
BomData ==
    <<<<ModelA,
        <<<<<<"2">>, [Component_Description |-> <<"a", "b">>, Standard_Price |-> 5,
                     Supplier |-> <<"b">>]>>,
          <<<<"1", "0">>, NoFields>>,
          <<<<"a">>, [Component_Description |-> <<"B", "a">>]>>,
          <<<<"p">>, Scalar>>>>>>,
      <<ModelB,
        <<<<<<"A", "1">>, [Standard_Price |-> 9, Supplier |-> <<"B">>]>>>>>>>>

\* The parts collections the BoM page is run against.
BomPartStores == {SmallStore(f) : f \in [1..Len(SmallCodes) -> {0, 1}]}

\* getAllBoMModels: the keys of the BoM node; [] without data or when the
\* read fails.
getAllBoMModels(db, ok) == IF ok THEN Keys(db) ELSE <<>>

IsComponentObject(e) == "scalar" \notin DOMAIN e[2]

\* The BoMComponent getBoMComponents builds for a child of the model's node.
BoMComponentOf(e) ==
    <<e[1],
      [Component_Material |-> e[1],
       Component_Description |-> OrString(e[2], "Component_Description"),
       Standard_Price |-> OrNumber(e[2], "Standard_Price"),
       Supplier |-> OrString(e[2], "Supplier")]>>

\* getBoMComponents: the components of the model keyed by material code; {}
\* without data or when the read fails.
getBoMComponents(db, modelWithMY, ok) ==
    IF ~ok \/ ~HasKey(db, modelWithMY) THEN EmptyObject
    ELSE LET data == Lookup(db, modelWithMY)
             objects == SelectSeq(data, IsComponentObject)
         IN  ObjectFromEntries([i \in 1..Len(objects) |-> BoMComponentOf(objects[i])])

\* uniqueMaterials of loadBoMComponents.
UniqueMaterials(bomData) ==
    {bomData[i][2].Component_Material : i \in 1..Len(bomData)}

\* Mutant of Enrich: a lookup without the part empties what was collected.
Enrich_allOrNothing(collected, material, searchResult) ==
    IF HasKey(searchResult, material)
    THEN Append(collected, <<material, Lookup(searchResult, material)>>)
    ELSE EmptyObject

\* The body of a lookup of loadBoMComponents after searchParts has answered:
\* the part stored under the material code, if the result has one.
Enrich(collected, material, searchResult) ==
    IF HasKey(searchResult, material)
    THEN Append(collected, <<material, Lookup(searchResult, material)>>)
    ELSE collected

BomInitIn(bomStores) ==
    /\ bomStore \in bomStores
    /\ bomModels = <<>>
    /\ selectedModel = EmptyString
    /\ bomComponents = EmptyObject
    /\ bomParts = EmptyObject
    /\ bomLoading = TRUE
    /\ loadingComponents = FALSE
    /\ bomLoads = <<>>

BomInit == BomInitIn({BomData})

\* A run of loadBoMComponents that waits for getBoMComponents.  pending are
\* the lookups not yet answered, partsData is the local mapping they fill, and
\* answered are the lookups whose read of the parts collection succeeded.
NewLoad(model) ==
    [model |-> model, phase |-> "components", bomData |-> EmptyObject, pending |-> {},
     partsData |-> EmptyObject, answered |-> {}]

RemoveAt(seq, i) == SubSeq(seq, 1, i - 1) \o SubSeq(seq, i + 1, Len(seq))

\* getAllBoMModels answers the effect of the mount: the models are stored and
\* the first one is selected, which starts loadBoMComponents for it.
BomModelsResolve(ok) ==
    /\ bomLoading
    /\ LET models == getAllBoMModels(bomStore, ok)
       IN  /\ bomModels' = models
           /\ IF Len(models) > 0
              THEN /\ selectedModel' = models[1]
                   /\ bomLoads' = Append(bomLoads, NewLoad(models[1]))
                   /\ loadingComponents' = TRUE
              ELSE UNCHANGED <<selectedModel, bomLoads, loadingComponents>>
    /\ bomLoading' = FALSE
    /\ UNCHANGED <<bomStore, bomComponents, bomParts>>

\* The user selects another model: the effect starts loadBoMComponents.
SelectModel(model) ==
    /\ model # selectedModel
    /\ Len(bomLoads) < MaxLoads
    /\ selectedModel' = model
    /\ bomLoads' = Append(bomLoads, NewLoad(model))
    /\ loadingComponents' = TRUE
    /\ UNCHANGED <<bomStore, bomModels, bomComponents, bomParts, bomLoading>>

\* The end of a run: setParts(partsData), and the flag in finally.
FinishLoad(i, collected) ==
    /\ bomParts' = ObjectFromEntries(collected)
    /\ loadingComponents' = FALSE
    /\ bomLoads' = RemoveAt(bomLoads, i)

\* getBoMComponents answers run i: the components are stored and one lookup
\* per material code is started.
ComponentsResolve(i, ok) ==
    /\ i \in 1..Len(bomLoads)
    /\ bomLoads[i].phase = "components"
    /\ LET bomData == getBoMComponents(bomStore, bomLoads[i].model, ok)
           uniqueMaterials == UniqueMaterials(bomData)
       IN  /\ bomComponents' = bomData
           /\ IF uniqueMaterials = {}
              THEN FinishLoad(i, EmptyObject)
              ELSE /\ bomLoads' = [bomLoads EXCEPT ![i].phase = "lookups",
                                                  ![i].bomData = bomData,
                                                  ![i].pending = uniqueMaterials]
                   /\ UNCHANGED <<bomParts, loadingComponents>>
    /\ UNCHANGED <<bomStore, bomModels, selectedModel, bomLoading>>

\* searchParts(material, 1) answers a lookup of run i; the last answer ends
\* the run.
LookupResolve(i, material, ok) ==
    /\ i \in 1..Len(bomLoads)
    /\ bomLoads[i].phase = "lookups"
    /\ material \in bomLoads[i].pending
    /\ LET searchResult == searchParts(store, material, 1, ok)
           collected == Enrich(bomLoads[i].partsData, material, searchResult)
           pending == bomLoads[i].pending \ {material}
       IN  IF pending = {}
           THEN FinishLoad(i, collected)
           ELSE /\ bomLoads' = [bomLoads EXCEPT
                                   ![i].pending = pending,
                                   ![i].partsData = collected,
                                   ![i].answered = IF ok THEN @ \cup {material} ELSE @]
                /\ UNCHANGED <<bomParts, loadingComponents>>
    /\ UNCHANGED <<bomStore, bomModels, selectedModel, bomComponents, bomLoading>>

BomNext ==
    \/ \E ok \in BOOLEAN : BomModelsResolve(ok)
    \/ \E i \in 1..Len(bomModels) : SelectModel(bomModels[i])
    \/ \E i \in 1..MaxLoads, ok \in BOOLEAN : ComponentsResolve(i, ok)
    \/ \E i \in 1..MaxLoads, ok \in BOOLEAN :
           \E material \in UNION {bomLoads[k].pending : k \in 1..Len(bomLoads)} :
               LookupResolve(i, material, ok)

\* ------------------------------------------------------------------------
\* Part images (ImageWithFallback)
\* ------------------------------------------------------------------------
BaseUrl == <<"https://firebasestorage.googleapis.com/v0/b/partssr.firebasestorage.app/o/">>

\* Characters encodeURIComponent leaves as they are, among those of the codes.
IsUnreserved(c) ==
    IsDigit(c) \/ IndexOf(UpperChars, c) > 0 \/ IndexOf(LowerChars, c) > 0 \/ c = "-"

\* encodeURIComponent, character by character: "/" becomes %2F.
RECURSIVE encodeURIComponent(_)
encodeURIComponent(str) ==
    IF str = <<>> THEN <<>>
    ELSE (IF IsUnreserved(Head(str)) THEN <<Head(str)>> ELSE <<"%", "2", "F">>)
             \o encodeURIComponent(Tail(str))

ImageUrl(material, extension) ==
    BaseUrl \o encodeURIComponent(material) \o <<extension, "?alt=media">>

\* getPartImageUrl.
getPartImageUrl(material) == ImageUrl(material, ".png")

\* getPartImageUrlWithFallback.
getPartImageUrlWithFallback(material) ==
    <<ImageUrl(material, ".png"), ImageUrl(material, ".jpg"), ImageUrl(material, ".webp")>>

\* Mutant of allSrcs: the fallbacks are handed over without slice(1).
allSrcs_notSliced(material) ==
    <<getPartImageUrl(material)>> \o getPartImageUrlWithFallback(material)

\* allSrcs of the component as the parts grid uses it: src, then fallbackSrcs.
allSrcs(material) ==
    <<getPartImageUrl(material)>>
        \o slice(getPartImageUrlWithFallback(material), 1, 3)

\* The parts whose image is shown and the objects the bucket may hold.
ImageMaterials == {<<"2">>, <<"A", "/", "1">>}
ImageObjects == {ImageUrl(m, e) : m \in ImageMaterials, e \in {".png", ".jpg", ".webp"}}

\* The component is mounted for a part (or its src changes to the part's and
\* the effect resets the state): the <img> requests src.
ShowImage(material) ==
    /\ imgMaterial' = material
    /\ currentSrc' = getPartImageUrl(material)
    /\ hasError' = FALSE
    /\ attempts' = 0
    /\ imgStatus' = "loading"
    /\ requested' = <<getPartImageUrl(material)>>
    /\ failed' = {}

ImageInitIn(buckets) ==
    /\ imageStore \in buckets
    /\ imgMaterial = <<"2">>
    /\ currentSrc = getPartImageUrl(<<"2">>)
    /\ hasError = FALSE
    /\ attempts = 0
    /\ imgStatus = "loading"
    /\ requested = <<getPartImageUrl(<<"2">>)>>
    /\ failed = {}

ImageInit == ImageInitIn({{}})

\* The details dialog is opened for another part: src changes.
SrcChange(material) ==
    /\ material # imgMaterial
    /\ ShowImage(material)
    /\ UNCHANGED imageStore

\* The source loads.
ImageLoaded ==
    /\ imgStatus = "loading"
    /\ currentSrc \in imageStore
    /\ imgStatus' = "loaded"
    /\ UNCHANGED <<imageStore, imgMaterial, currentSrc, hasError, attempts, requested,
                   failed>>

\* The source fails to load: onError calls handleError.
handleError ==
    /\ imgStatus = "loading"
    /\ currentSrc \notin imageStore
    /\ failed' = failed \cup {currentSrc}
    /\ LET nextAttempt == attempts + 1
           srcs == allSrcs(imgMaterial)
       IN  IF nextAttempt < Len(srcs)
           THEN /\ currentSrc' = srcs[nextAttempt + 1]
                /\ attempts' = nextAttempt
                /\ requested' = Append(requested, srcs[nextAttempt + 1])
                /\ UNCHANGED <<hasError, imgStatus>>
           ELSE /\ hasError' = TRUE
                /\ imgStatus' = "placeholder"
                /\ UNCHANGED <<currentSrc, attempts, requested>>
    /\ UNCHANGED <<imageStore, imgMaterial>>

ImageNext ==
    \/ \E material \in ImageMaterials : SrcChange(material)
    \/ ImageLoaded
    \/ handleError

\* ------------------------------------------------------------------------
\* PDFService.generateApplicationPDF
\* ------------------------------------------------------------------------
\* The lines of the longest text handed to the PDF.
MaxLines == 15

\* jsPDF('p', 'mm', 'a4'): the height of a page, and the margin, in mm.
pageHeight == 297
margin == 20

\* The labels, by language.  The Chinese ones are written as code points.
Label(language, zh, en) == IF language = "zh" THEN zh ELSE en
titleLabel(language) == Label(language, "U+96F6 U+90E8 U+4EF6 U+7533 U+8BF7 U+5355", "Part Application Form")
ticketLabel(language) == Label(language, "U+7533 U+8BF7 U+5355 U+53F7:", "Ticket ID:")
dateLabel(language) == Label(language, "U+7533 U+8BF7 U+65E5 U+671F:", "Application Date:")
statusLabel(language) == Label(language, "U+72B6 U+6001:", "Status:")
urgencyLabel(language) == Label(language, "U+7D27 U+6025 U+7A0B U+5EA6:", "Urgency:")
partInfoTitle(language) == Label(language, "U+96F6 U+90E8 U+4EF6 U+4FE1 U+606F", "Part Information")
partNumberLabel(language) == Label(language, "U+96F6 U+90E8 U+4EF6 U+7F16 U+53F7:", "Part Number:")
supplierLabel(language) == Label(language, "U+4F9B U+5E94 U+5546:", "Supplier:")
descriptionLabel(language) == Label(language, "U+96F6 U+90E8 U+4EF6 U+63CF U+8FF0:", "Description:")
requestInfoTitle(language) == Label(language, "U+7533 U+8BF7 U+4FE1 U+606F", "Request Information")
requestedByLabel(language) == Label(language, "U+7533 U+8BF7 U+4EBA:", "Requested By:")
departmentLabel(language) == Label(language, "U+90E8 U+95E8:", "Department:")
estimatedCostLabel(language) == Label(language, "U+9884 U+4F30 U+6210 U+672C:", "Estimated Cost:")
techSpecsTitle(language) == Label(language, "U+6280 U+672F U+89C4 U+683C", "Technical Specifications")
justificationTitle(language) == Label(language, "U+4E1A U+52A1 U+4F9D U+636E", "Business Justification")
notesTitle(language) == Label(language, "U+9644 U+52A0 U+8BF4 U+660E", "Additional Notes")
imageTitle(language) == Label(language, "U+96F6 U+90E8 U+4EF6 U+56FE U+7247", "Part Image")
footerLabel(language) ==
    Label(language, "U+751F U+6210 U+65E5 U+671F: | U+96F6 U+90E8 U+4EF6 U+7533 U+8BF7 U+7CFB U+7EDF",
          "Generated: | Parts Application System")

\* The document: the calls made on the jsPDF object so far, the page they
\* go to and yPosition.
NewDocument == [ops |-> <<>>, yPosition |-> margin, page |-> 1]

\* pdf.text(...) at yPosition: label is a text of the program, lines are
\* the lines of a value of the application.
pdfText(doc, font, label, lines) ==
    [doc EXCEPT !.ops = Append(@, [op |-> "text", font |-> font, label |-> label,
                                    lines |-> lines, page |-> doc.page,
                                    y |-> doc.yPosition])]

advance(doc, dy) == [doc EXCEPT !.yPosition = @ + dy]

addPage(doc) ==
    [doc EXCEPT !.ops = Append(@, [op |-> "addPage", font |-> "", label |-> "",
                                    lines |-> <<>>, page |-> doc.page + 1, y |-> margin]),
                !.page = @ + 1,
                !.yPosition = margin]

\* "Check if we need a new page": less than room mm are left on the page.
checkNewPage(doc, room) == IF doc.yPosition > pageHeight - room THEN addPage(doc) ELSE doc

\* pdf.splitTextToSize(text, width) for lines shorter than the width: the
\* text cut at its line feeds.
RECURSIVE splitTextToSize(_)
splitTextToSize(t) ==
    IF \E i \in 1..Len(t) : t[i] = "\n"
    THEN LET i == CHOOSE k \in 1..Len(t) :
                      t[k] = "\n" /\ \A j \in 1..(k - 1) : t[j] # "\n"
         IN  <<SubSeq(t, 1, i - 1)>> \o splitTextToSize(SubSeq(t, i + 1, Len(t)))
    ELSE <<t>>

\* if (application.technical_specs) with every text drawn.
HasText_always(value) == TRUE

\* if (application.technical_specs), if (application.justification),
\* if (application.application_notes): the string is not empty.
HasText(value) == value # EmptyString

\* The heading of a block and the lines of its text under it.
headingAndText(doc, title, value) ==
    LET lines == splitTextToSize(value)
        headed == advance(pdfText(doc, "bold", title, <<>>), 8)
    IN  advance(pdfText(headed, "normal", "", lines), Len(lines) * 5 + 10)

\* Title, ticket id, date, status and urgency.
header(doc, application, language) ==
    LET d1 == advance(pdfText(doc, "bold", titleLabel(language), <<>>), 15)
        d2 == advance(pdfText(d1, "normal", ticketLabel(language), <<application.ticket_id>>), 10)
        d3 == advance(pdfText(d2, "normal", dateLabel(language),
                           <<<<"formatDate", application.created_at>>>>), 15)
        d4 == pdfText(d3, "normal", statusLabel(language),
                   <<<<"toUpperCase", application.status>>>>)
    IN  advance(pdfText(d4, "normal", urgencyLabel(language),
                     <<<<"toUpperCase", application.urgency>>>>), 15)

\* fields.forEach: the label, then the wrapped value beside it.
partField(doc, label, value) ==
    LET lines == splitTextToSize(value)
    IN  advance(pdfText(pdfText(doc, "bold", label, <<>>), "normal", "", lines),
                Len(lines) * 5 + 3)

partInformation(doc, application, language) ==
    LET d1 == advance(pdfText(doc, "bold", partInfoTitle(language), <<>>), 8)
        d2 == partField(d1, partNumberLabel(language), application.part_number)
        d3 == partField(d2, supplierLabel(language), application.supplier_name)
    IN  advance(partField(d3, descriptionLabel(language), application.part_description), 5)

\* requestFields.forEach: the label, then the value beside it.
requestField(doc, label, value) ==
    advance(pdfText(pdfText(doc, "bold", label, <<>>), "normal", "", <<value>>), 7)

requestInformation(doc, application, language) ==
    LET d1 == advance(pdfText(doc, "bold", requestInfoTitle(language), <<>>), 8)
        d2 == requestField(d1, requestedByLabel(language), application.requested_by)
        d3 == requestField(d2, departmentLabel(language), application.department)
    IN  advance(requestField(d3, estimatedCostLabel(language),
                             <<"formatCurrency", application.estimated_cost>>), 5)

technicalSpecifications(doc, application, language) ==
    IF HasText(application.technical_specs)
    THEN headingAndText(doc, techSpecsTitle(language), application.technical_specs)
    ELSE doc

businessJustification(doc, application, language) ==
    IF HasText(application.justification)
    THEN headingAndText(checkNewPage(doc, 60), justificationTitle(language),
                        application.justification)
    ELSE doc

additionalNotes(doc, application, language) ==
    IF HasText(application.application_notes)
    THEN headingAndText(checkNewPage(doc, 40), notesTitle(language),
                        application.application_notes)
    ELSE doc

\* if (application.image_url): the property is there and not empty.
HasImage(application) ==
    "image_url" \in DOMAIN application /\ application.image_url # EmptyString

\* The heading of the image, drawn before the image is requested.
imageHeading(doc, application, language) ==
    IF HasImage(application)
    THEN advance(pdfText(checkNewPage(doc, 100), "bold", imageTitle(language), <<>>), 10)
    ELSE doc

\* img.onload: pdf.addImage at yPosition.
addImage(doc, url) ==
    [doc EXCEPT !.ops = Append(@, [op |-> "addImage", font |-> "", label |-> "",
                                    lines |-> <<url>>, page |-> doc.page,
                                    y |-> doc.yPosition])]

\* The file name with the ticket id only.
filename_noLanguage(application, language) ==
    application.ticket_id \o <<".", "p", "d", "f">>

\* `${application.ticket_id}_${language === 'zh' ? 'zh' : 'en'}.pdf`
filename(application, language) ==
    application.ticket_id \o <<"_">>
        \o (IF language = "zh" THEN <<"z", "h">> ELSE <<"e", "n">>)
        \o <<".", "p", "d", "f">>

\* The footer and pdf.save(filename).
footerAndSave(doc, application, language) ==
    LET footed == [pdfText(doc, "normal", footerLabel(language), <<>>)
                       EXCEPT !.ops[Len(doc.ops) + 1].y = pageHeight - 15]
    IN  [footed EXCEPT !.ops = Append(@, [op |-> "save", font |-> "", label |-> "",
                                           lines |-> <<filename(application, language)>>,
                                           page |-> doc.page, y |-> doc.yPosition])]

\* The document up to the await of the image.
drawnBeforeImage(application, language) ==
    LET d1 == header(NewDocument, application, language)
        d2 == partInformation(d1, application, language)
        d3 == requestInformation(d2, application, language)
        d4 == technicalSpecifications(d3, application, language)
        d5 == businessJustification(d4, application, language)
        d6 == additionalNotes(d5, application, language)
    IN  imageHeading(d6, application, language)

RECURSIVE LinesText(_)
LinesText(n) == IF n <= 1 THEN <<"x">> ELSE <<"x", "\n">> \o LinesText(n - 1)

ImageAddress == <<"u">>
PdfTexts == {EmptyString, Bolt, LinesText(MaxLines)}

WithImage(application, url) ==
    [f \in DOMAIN application \cup {"image_url"} |->
        IF f = "image_url" THEN url ELSE application[f]]

\* The applications handed to generateApplicationPDF.
PdfApplications ==
    LET stored == fullApplication(CHOOSE a \in ServiceApplications : TRUE, pushKey(0), 0)
        plain == {[stored EXCEPT !.technical_specs = t, !.justification = j,
                                 !.application_notes = n] :
                     t \in PdfTexts, j \in PdfTexts, n \in PdfTexts}
    IN  plain \cup {WithImage(a, url) : a \in plain, url \in {EmptyString, ImageAddress}}

PdfInit ==
    /\ pdfApplication = Null
    /\ pdfLanguage = "en"
    /\ pdfDoc = NewDocument
    /\ pdfPhase = "idle"

\* generateApplicationPDF(application, language) up to the image, and to
\* its end when the application has no image.
generateApplicationPDF(application, language) ==
    /\ pdfPhase \in {"idle", "saved"}
    /\ pdfApplication' = application
    /\ pdfLanguage' = language
    /\ IF HasImage(application)
       THEN /\ pdfDoc' = drawnBeforeImage(application, language)
            /\ pdfPhase' = "image"
       ELSE /\ pdfDoc' = footerAndSave(drawnBeforeImage(application, language),
                                       application, language)
            /\ pdfPhase' = "saved"

\* img.onload or img.onerror: the image is added or left out, then the
\* footer is drawn and the document saved.
imageSettled(loaded) ==
    /\ pdfPhase = "image"
    /\ pdfDoc' = footerAndSave(IF loaded THEN addImage(pdfDoc, pdfApplication.image_url)
                                         ELSE pdfDoc,
                               pdfApplication, pdfLanguage)
    /\ pdfPhase' = "saved"
    /\ UNCHANGED <<pdfApplication, pdfLanguage>>

PdfNext ==
    \/ \E application \in PdfApplications, language \in {"en", "zh"} :
           generateApplicationPDF(application, language)
    \/ \E loaded \in BOOLEAN : imageSettled(loaded)

\* ------------------------------------------------------------------------
\* Admin page (AdminPage)
\* ------------------------------------------------------------------------
\* The caller of updatePartData that is the admin page.
AdminCaller == 1

Blank == <<" ">>

\* String.prototype.trim, for the space.
RECURSIVE trim(_)
trim(str) ==
    IF str = EmptyString THEN str
    ELSE IF str[1] = " " THEN trim(SubSeq(str, 2, Len(str)))
    ELSE IF str[Len(str)] = " " THEN trim(SubSeq(str, 1, Len(str) - 1))
    ELSE str

\* value.trim() || undefined
TrimOrUndefined(value) == IF trim(value) = EmptyString THEN Undefined ELSE trim(value)

NoSelectedPart == [selected |-> FALSE, material |-> EmptyString, part |-> NoFields]
EmptyForm ==
    [notes |-> EmptyString, year |-> EmptyString, obsoletedDate |-> EmptyString,
     alternativeParts |-> EmptyString]

PartDataUpdatedMessage(material) ==
    [type |-> "success", text |-> <<"Part data updated successfully for ", material>>]
PartDataFailedMessage == [type |-> "error", text |-> <<"Failed to update part data">>]

\* What the admin types into the inputs of the edit form.
AdminTyped ==
    [notes |-> {EmptyString, New, Blank}, year |-> {EmptyString, Year2024},
     obsoletedDate |-> {EmptyString, Year2024}, alternativeParts |-> {EmptyString, CodeB}]

\* The parts collection the admin page loads: the codes 2 and A1.
AdminPartStores ==
    {SmallStore([i \in 1..Len(SmallCodes) |-> IF i = 1 THEN 1 ELSE IF i = 3 THEN 3 ELSE 0])}

AdminInit ==
    /\ adminParts = EmptyObject
    /\ adminLoading = TRUE
    /\ selectedPart = NoSelectedPart
    /\ adminForm = EmptyForm
    /\ isSaving = FALSE
    /\ adminMessage = NoMessage

\* loadParts: getAllParts resolves.  getAllParts never rejects, so the
\* catch of loadParts is not reached.
loadParts(ok) ==
    /\ adminLoading
    /\ adminParts' = getAllParts(store, ok)
    /\ adminLoading' = FALSE
    /\ UNCHANGED <<selectedPart, adminForm, isSaving, adminMessage>>

\* A part of the list is clicked.
handlePartSelect(material) ==
    /\ HasKey(adminParts, material)
    /\ LET part == Lookup(adminParts, material)
       IN  /\ selectedPart' = [selected |-> TRUE, material |-> material, part |-> part]
           /\ adminForm' =
                  [notes |-> OrString(part, "notes"), year |-> OrString(part, "year"),
                   obsoletedDate |-> OrString(part, "obsoleted_date"),
                   alternativeParts |-> OrString(part, "alternative_parts")]
    /\ UNCHANGED <<adminParts, adminLoading, isSaving, adminMessage>>

\* An input of the edit form is changed.
ChangeAdminField(field, value) ==
    /\ selectedPart.selected
    /\ adminForm[field] # value
    /\ adminForm' = [adminForm EXCEPT ![field] = value]
    /\ UNCHANGED <<adminParts, adminLoading, selectedPart, isSaving, adminMessage>>

\* The updates handleSavePartData builds from the form.
updatesOf(form) ==
    [notes |-> TrimOrUndefined(form.notes), year |-> TrimOrUndefined(form.year),
     obsoleted_date |-> TrimOrUndefined(form.obsoletedDate),
     alternative_parts |-> TrimOrUndefined(form.alternativeParts)]

\* handleSavePartData up to the first answer of the store: the Save button,
\* disabled while isSaving, is clicked, updatePartData is called and its
\* get() resolves or rejects.
handleSavePartData(ok) ==
    /\ selectedPart.selected
    /\ ~isSaving
    /\ isSaving' = TRUE
    /\ UpdateRead(AdminCaller, selectedPart.material, updatesOf(adminForm), ok)
    /\ UNCHANGED <<adminParts, adminLoading, selectedPart, adminForm, adminMessage>>

\* set() of the updatePartData the page awaits resolves or rejects.
AdminUpdateWrite(ok) ==
    /\ isSaving
    /\ UpdateWrite(AdminCaller, ok)
    /\ UNCHANGED adminVars

\* setParts of handleSavePartData: the updates are merged into the local
\* record of the part.
mergeLocal(parts, material, updates) ==
    SetChild(parts, material, Spread(ChildVal(parts, material), updates))

\* Mutant of saveSettled: the local mapping is updated whether or not the
\* write succeeded.
saveSettled_optimistic ==
    /\ isSaving
    /\ updaters[AdminCaller].phase \in {"done", "thrown"}
    /\ adminParts' = mergeLocal(adminParts, updaters[AdminCaller].material,
                                updaters[AdminCaller].updates)
    /\ adminMessage' = IF updaters[AdminCaller].phase = "done"
                       THEN PartDataUpdatedMessage(updaters[AdminCaller].material)
                       ELSE PartDataFailedMessage
    /\ isSaving' = FALSE
    /\ updaters' = [updaters EXCEPT ![AdminCaller] = Idle]
    /\ UNCHANGED <<adminLoading, selectedPart, adminForm, partsData, call>>

\* The rest of handleSavePartData, after the await: setParts and the success
\* message, or the catch and the error message; finally setIsSaving(false).
saveSettled ==
    /\ isSaving
    /\ updaters[AdminCaller].phase \in {"done", "thrown"}
    /\ IF updaters[AdminCaller].phase = "done"
       THEN /\ adminParts' = mergeLocal(adminParts, updaters[AdminCaller].material,
                                        updaters[AdminCaller].updates)
            /\ adminMessage' = PartDataUpdatedMessage(updaters[AdminCaller].material)
       ELSE /\ adminParts' = adminParts
            /\ adminMessage' = PartDataFailedMessage
    /\ isSaving' = FALSE
    /\ updaters' = [updaters EXCEPT ![AdminCaller] = Idle]
    /\ UNCHANGED <<adminLoading, selectedPart, adminForm, partsData, call>>

\* The timer of showMessage clears the message.
AdminMessageTimeout ==
    /\ adminMessage # NoMessage
    /\ adminMessage' = NoMessage
    /\ UNCHANGED <<adminParts, adminLoading, selectedPart, adminForm, isSaving>>

AdminNext ==
    \/ \E ok \in BOOLEAN : loadParts(ok) /\ UNCHANGED <<partsDataVars, call>>
    \/ \E material \in KeySet(adminParts) :
           handlePartSelect(material) /\ UNCHANGED <<partsDataVars, call>>
    \/ \E field \in DOMAIN AdminTyped : \E value \in AdminTyped[field] :
           ChangeAdminField(field, value) /\ UNCHANGED <<partsDataVars, call>>
    \/ \E ok \in BOOLEAN : handleSavePartData(ok)
    \/ \E ok \in BOOLEAN : AdminUpdateWrite(ok)
    \/ saveSettled
    \/ AdminMessageTimeout /\ UNCHANGED <<partsDataVars, call>>

\* ------------------------------------------------------------------------
\* FirebaseService: calls of the read operations
\* ------------------------------------------------------------------------
GetAllPartsCall(ok) ==
    call' = Returned("getAllParts", ok, getAllParts(store, ok))

SearchPartsRead(term, limit, ok) ==
    call' = Returned("searchParts", ok, searchParts(store, term, limit, ok))

GetAllBoMModelsCall(ok) ==
    call' = Returned("getAllBoMModels", ok, getAllBoMModels(bomStore, ok))

GetBoMComponentsCall(modelWithMY, ok) ==
    call' = Returned("getBoMComponents", ok, getBoMComponents(bomStore, modelWithMY, ok))

ReadsNext ==
    \/ \E ok \in BOOLEAN : GetAllPartsCall(ok)
    \/ \E term \in {EmptyString, <<"a">>}, limit \in {1, MaxLimit}, ok \in BOOLEAN :
           SearchPartsRead(term, limit, ok)
    \/ \E ok \in BOOLEAN : GetAllBoMModelsCall(ok)
    \/ \E modelWithMY \in {ModelA, ModelB}, ok \in BOOLEAN :
           GetBoMComponentsCall(modelWithMY, ok)

\* ------------------------------------------------------------------------
\* Specifications
\* ------------------------------------------------------------------------
\* The initial state of the parts introduced after the ticket store.
RestInit == PartsDataInit /\ BomInit /\ ImageInit /\ PdfInit /\ AdminInit /\ PgInit

\* The catalogue page.
Init == CatalogueInit /\ SummaryInit /\ SearchInit /\ TicketInit /\ AppStoreInit /\ RestInit
Next ==
    CatalogueNext /\ UNCHANGED <<summaryVars, searchVars, ticketVars, appStoreVars, call, restVars>>
Spec == Init /\ [][Next]_vars

\* The summary page.
InitSummary == CatalogueInit /\ SummaryInit /\ SearchInit /\ TicketInit /\ AppStoreInit /\ RestInit
NextSummary ==
    SummaryNext /\ UNCHANGED <<catalogueVars, searchVars, ticketVars, appStoreVars, call, restVars>>
SpecSummary == InitSummary /\ [][NextSummary]_vars

\* Calls of searchParts against every small collection.
InitSearch ==
    CatalogueInitIn(SmallStores) /\ SummaryInit /\ SearchInit /\ TicketInit /\ AppStoreInit /\ RestInit
NextSearch ==
    SearchNext /\ UNCHANGED <<catalogueVars, summaryVars, ticketVars, appStoreVars, call, restVars>>
SpecSearch == InitSearch /\ [][NextSearch]_vars

\* The part-application page, beside a store that holds no ticket or one: the
\* page calls none of the ticket operations of FirebaseService.
InitTicket ==
    /\ CatalogueInitIn({EmptyObject}) /\ SummaryInit /\ SearchInit /\ TicketInit
    /\ AppStoreInitIn({0, 1}) /\ RestInit
NextTicket ==
    TicketNext /\ UNCHANGED <<catalogueVars, summaryVars, searchVars, appStoreVars, call, restVars>>
SpecTicket == InitTicket /\ [][NextTicket]_vars

\* The ticket operations of FirebaseService, called from any number of
\* browsers.
InitAppStore ==
    /\ CatalogueInitIn({EmptyObject}) /\ SummaryInit /\ SearchInit /\ TicketInit
    /\ AppStoreInit /\ RestInit
NextAppStore ==
    AppStoreNext
        /\ UNCHANGED <<catalogueVars, summaryVars, searchVars, ticketVars, restVars>>
SpecAppStore == InitAppStore /\ [][NextAppStore]_vars

\* Calls of updatePartData from callers that run at the same time.
InitPartsData ==
    /\ CatalogueInitIn({EmptyObject}) /\ SummaryInit /\ SearchInit /\ TicketInit
    /\ AppStoreInit /\ RestInit
NextPartsData ==
    PartsDataNext
        /\ UNCHANGED <<catalogueVars, summaryVars, searchVars, ticketVars, appStoreVars,
                       bomVars, imageVars, pdfVars, adminVars, pgVars>>
SpecPartsData == InitPartsData /\ [][NextPartsData]_vars

\* The BoM page against every small parts collection.
InitBom ==
    /\ CatalogueInitIn(BomPartStores) /\ SummaryInit /\ SearchInit /\ TicketInit
    /\ AppStoreInit /\ PartsDataInit /\ BomInitIn({BomData, EmptyObject}) /\ ImageInit
    /\ PdfInit /\ AdminInit /\ PgInit
NextBom ==
    BomNext
        /\ UNCHANGED <<catalogueVars, summaryVars, searchVars, ticketVars, appStoreVars,
                       call, partsDataVars, imageVars, pdfVars, adminVars, pgVars>>
SpecBom == InitBom /\ [][NextBom]_vars

\* A part image against every content of the bucket.
InitImage ==
    /\ CatalogueInitIn({EmptyObject}) /\ SummaryInit /\ SearchInit /\ TicketInit
    /\ AppStoreInit /\ PartsDataInit /\ BomInit /\ ImageInitIn(SUBSET ImageObjects)
    /\ PdfInit /\ AdminInit /\ PgInit
NextImage ==
    ImageNext
        /\ UNCHANGED <<catalogueVars, summaryVars, searchVars, ticketVars, appStoreVars,
                       call, partsDataVars, bomVars, pdfVars, adminVars, pgVars>>
SpecImage == InitImage /\ [][NextImage]_vars

\* generateApplicationPDF, called with any application.
InitPdf ==
    /\ CatalogueInitIn({EmptyObject}) /\ SummaryInit /\ SearchInit /\ TicketInit
    /\ AppStoreInit /\ RestInit
NextPdf ==
    PdfNext
        /\ UNCHANGED <<catalogueVars, summaryVars, searchVars, ticketVars, appStoreVars,
                       call, partsDataVars, bomVars, imageVars, adminVars, pgVars>>
SpecPdf == InitPdf /\ [][NextPdf]_vars

\* The browser ends the request of the image with a load or an error event.
SpecPdfLive == InitPdf /\ [][NextPdf]_vars /\ WF_pdfVars(\E loaded \in BOOLEAN : imageSettled(loaded))

\* The admin page, its saves against the Parts collection.
InitAdmin ==
    /\ CatalogueInitIn(AdminPartStores) /\ SummaryInit /\ SearchInit /\ TicketInit
    /\ AppStoreInit /\ PartsDataInitIn({AdminCaller}) /\ BomInit /\ ImageInit /\ PdfInit
    /\ AdminInit /\ PgInit
NextAdmin ==
    AdminNext
        /\ UNCHANGED <<catalogueVars, summaryVars, searchVars, ticketVars, appStoreVars,
                       bomVars, imageVars, pdfVars, pgVars>>
SpecAdmin == InitAdmin /\ [][NextAdmin]_vars

\* The pagination controls for every page count from 2 and every page.
InitPagination ==
    /\ CatalogueInitIn({EmptyObject}) /\ SummaryInit /\ SearchInit /\ TicketInit
    /\ AppStoreInit /\ PartsDataInit /\ BomInit /\ ImageInit /\ PdfInit /\ AdminInit
    /\ PgInitIn({render \in (2..MaxPages) \X (1..MaxPages) : render[2] <= render[1]})
NextPagination ==
    \/ PgFirst /\ UNCHANGED <<catalogueVars, summaryVars, searchVars, ticketVars, appStoreVars,
                               call, partsDataVars, bomVars, imageVars, pdfVars, adminVars>>
    \/ PgPrevious /\ UNCHANGED <<catalogueVars, summaryVars, searchVars, ticketVars, appStoreVars,
                               call, partsDataVars, bomVars, imageVars, pdfVars, adminVars>>
    \/ PgNumbered /\ UNCHANGED <<catalogueVars, summaryVars, searchVars, ticketVars, appStoreVars,
                               call, partsDataVars, bomVars, imageVars, pdfVars, adminVars>>
    \/ PgNext /\ UNCHANGED <<catalogueVars, summaryVars, searchVars, ticketVars, appStoreVars,
                               call, partsDataVars, bomVars, imageVars, pdfVars, adminVars>>
    \/ PgLast /\ UNCHANGED <<catalogueVars, summaryVars, searchVars, ticketVars, appStoreVars,
                               call, partsDataVars, bomVars, imageVars, pdfVars, adminVars>>
SpecPagination == InitPagination /\ [][NextPagination]_vars

\* The parts collections the operations of FirebaseService are called against.
ServicePartStores ==
    {EmptyObject, SmallStore([i \in 1..Len(SmallCodes) |-> IF i = 2 THEN 0 ELSE 1])}

\* Every operation of FirebaseService that reads or writes the database,
\* each call with a store that answers or fails.
InitService ==
    /\ CatalogueInitIn(ServicePartStores) /\ SummaryInit /\ SearchInit /\ TicketInit
    /\ AppStoreInit /\ PartsDataInitIn({1}) /\ BomInit /\ ImageInit /\ PdfInit /\ AdminInit /\ PgInit
NextService ==
    \/ ReadsNext
           /\ UNCHANGED <<catalogueVars, summaryVars, searchVars, ticketVars, appStoreVars,
                          restVars>>
    \/ AppStoreNext
           /\ UNCHANGED <<catalogueVars, summaryVars, searchVars, ticketVars, restVars>>
    \/ /\ \/ \E updates \in UpdatePayloads, ok \in BOOLEAN :
                  UpdateRead(1, CodeA1, updates, ok)
          \/ \E ok \in BOOLEAN : UpdateWrite(1, ok)
       /\ UNCHANGED <<catalogueVars, summaryVars, searchVars, ticketVars, appStoreVars,
                      bomVars, imageVars, pdfVars, adminVars, pgVars>>
SpecService == InitService /\ [][NextService]_vars

\* ------------------------------------------------------------------------
\* Properties of the catalogue page
\* ------------------------------------------------------------------------
\* Concatenation of a sequence of sequences.
RECURSIVE Concat(_)
Concat(ss) == IF ss = <<>> THEN <<>> ELSE Head(ss) \o Concat(Tail(ss))

HasStock(part) == "Current_Stock_Qty" \in DOMAIN part /\ part["Current_Stock_Qty"] > 0
PriceOrZero(part) == IF "Standard_Price" \in DOMAIN part THEN part["Standard_Price"] ELSE 0
StockOrZero(part) ==
    IF "Current_Stock_Qty" \in DOMAIN part THEN part["Current_Stock_Qty"] ELSE 0

\* C1: with supplier filter 'all' and the stock-only flag off, the filtered
\* result holds exactly the entries of the loaded part mapping: the same part
\* codes with the same records, none added, none dropped, none repeated.
C1_AllFilterKeepsMapping ==
    (selectedSupplier = ALL /\ ~showInStockOnly) =>
        /\ KeySet(filteredAndSortedParts) = KeySet(allParts)
        /\ Range(filteredAndSortedParts) = Range(allParts)
        /\ Len(filteredAndSortedParts) = Len(allParts)

\* C1 witness: a mapping of three parts, one without a stock quantity, shown
\* under the 'all' filter with the flag off after a sort by price.
C1_Witness ==
    /\ selectedSupplier = ALL /\ ~showInStockOnly /\ sortBy = "price"
    /\ Len(allParts) = 3
    /\ \E i \in 1..Len(allParts) : "Current_Stock_Qty" \notin DOMAIN allParts[i][2]
    /\ Len(filteredAndSortedParts) = 3

\* C2: with the stock-only flag on, every record of the filtered result has a
\* stock quantity > 0 (a missing quantity counts as 0), and the result is a
\* subset of the result for the same supplier filter with the flag off.
C2_StockOnlyFilter ==
    showInStockOnly =>
        /\ \A i \in 1..Len(filteredAndSortedParts) :
               HasStock(filteredAndSortedParts[i][2])
        /\ Range(filteredAndSortedParts) \subseteq
               Range(FilteredAndSorted(allParts, selectedSupplier, sortBy, FALSE))

\* C2 witness: the flag is on, a loaded record without a stock quantity has
\* been dropped and a record in stock has been kept.
C2_Witness ==
    /\ showInStockOnly
    /\ \E i \in 1..Len(allParts) : "Current_Stock_Qty" \notin DOMAIN allParts[i][2]
    /\ Len(filteredAndSortedParts) > 0
    /\ Len(filteredAndSortedParts) < Len(allParts)

PageSizes == {1, 2, 3, itemsPerPage}

PagesOf(fs, perPage) ==
    [p \in 1..ceilDiv(Len(fs), perPage) |-> PageSlice(fs, p, perPage)]

\* C3: for the filtered and sorted sequence and a page size P, the slices of
\* pages 1..ceil(N/P) concatenated in order give the sequence back; every
\* record is on exactly one page, every page but the last has P records and
\* the last has between 1 and P.
C3_PagesReconstructSequence ==
    \A P \in PageSizes :
        LET fs == filteredAndSortedParts
            pages == PagesOf(fs, P)
        IN  /\ Concat(pages) = fs
            /\ \A i \in 1..Len(fs) :
                   Cardinality({p \in 1..Len(pages) : fs[i] \in Range(pages[p])}) = 1
            /\ \A p \in 1..(Len(pages) - 1) : Len(pages[p]) = P
            /\ Len(pages) > 0 =>
                   (Len(pages[Len(pages)]) >= 1 /\ Len(pages[Len(pages)]) <= P)

\* C3 witness: the last page of a sequence of more than one page of 50 is
\* displayed, and it is shorter than 50.
C3_Witness ==
    /\ Len(filteredAndSortedParts) > itemsPerPage
    /\ Len(filteredAndSortedParts) % itemsPerPage # 0
    /\ totalPages = 2
    /\ currentPage = 2
    /\ displayedParts # EmptyObject

\* C4: the records displayed for the page are in the order of the page's
\* slice of the filtered and sorted sequence.
C4_DisplayedInSortedOrder ==
    Keys(displayedParts) =
        Keys(PageSlice(filteredAndSortedParts, currentPage, itemsPerPage))

\* C5: the page count T is ceil(N/50), i.e. the least T with 50 * T >= N; no
\* filtered record gives zero pages and an empty page; a current page beyond
\* the page count displays the empty page.
C5_PageCountAndEmptyPage ==
    LET N == Len(filteredAndSortedParts)
    IN  /\ totalPages * itemsPerPage >= N
        /\ (totalPages - 1) * itemsPerPage < N
        /\ N = 0 => (totalPages = 0 /\ displayedParts = EmptyObject)
        /\ currentPage > totalPages => displayedParts = EmptyObject

\* C5 witness: page 2 is current while the filtered result fits on one page.
C5_Witness ==
    /\ currentPage = 2
    /\ totalPages = 1
    /\ Len(filteredAndSortedParts) > 0
    /\ displayedParts = EmptyObject

\* C7: sorted by price the standard prices never decrease along the sequence,
\* sorted by stock the stock quantities never increase, a missing value
\* taking the place of 0.
C7_PriceAndStockOrder ==
    LET fs == filteredAndSortedParts
    IN  /\ sortBy = "price" =>
               \A i \in 1..(Len(fs) - 1) : PriceOrZero(fs[i][2]) <= PriceOrZero(fs[i + 1][2])
        /\ sortBy = "stock" =>
               \A i \in 1..(Len(fs) - 1) : StockOrZero(fs[i][2]) >= StockOrZero(fs[i + 1][2])

\* C7 witness: a sort by stock moved a record without a stock quantity behind
\* a record that followed it in the loaded mapping.
C7_Witness ==
    /\ sortBy = "stock"
    /\ Len(filteredAndSortedParts) >= 3
    /\ \E i, j \in 1..Len(allParts) :
           /\ i < j
           /\ "Current_Stock_Qty" \notin DOMAIN allParts[i][2]
           /\ StockOrZero(allParts[j][2]) > 0
           /\ filteredAndSortedParts[Len(filteredAndSortedParts)] = allParts[i]

\* ------------------------------------------------------------------------
\* Properties of the summary page
\* ------------------------------------------------------------------------
Reverse(s) == [i \in 1..Len(s) |-> s[Len(s) + 1 - i]]
PositionOf(s, x) == CHOOSE i \in 1..Len(s) : s[i] = x

\* The filtered records before the sort, and their sort by price each way.
summaryUnsorted ==
    SummaryFilter(summaryParts, summarySearchTerm, summarySupplier, selectedMarginFilter)
summaryByPrice(direction) ==
    SummaryFilteredAndSorted(summaryParts, summarySearchTerm, summarySupplier,
                             selectedMarginFilter, "Standard_Price", direction)

\* C6: sorted by price, the descending sequence is the exact reverse of the
\* ascending one when the prices are pairwise distinct, and in each direction
\* records of equal price keep the relative order of the unsorted input.
C6_PriceSortReverseAndStable ==
    LET F == summaryUnsorted
        A == summaryByPrice("asc")
        D == summaryByPrice("desc")
    IN  /\ Range(A) = Range(F) /\ Range(D) = Range(F)
        /\ Len(A) = Len(F) /\ Len(D) = Len(F)
        /\ (\A i, j \in 1..Len(F) : i # j => PriceOrZero(F[i]) # PriceOrZero(F[j]))
               => A = Reverse(D)
        /\ \A i, j \in 1..Len(F) :
               (i < j /\ PriceOrZero(F[i]) = PriceOrZero(F[j])) =>
                   /\ PositionOf(A, F[i]) < PositionOf(A, F[j])
                   /\ PositionOf(D, F[i]) < PositionOf(D, F[j])

\* C6 witness: the page shows three records of pairwise distinct prices
\* sorted by price in ascending order after the header was clicked twice.
C6_Witness ==
    /\ sortField = "Standard_Price" /\ sortDirection = "asc"
    /\ Len(summaryUnsorted) = 3
    /\ \A i, j \in 1..3 :
           i # j => PriceOrZero(summaryUnsorted[i]) # PriceOrZero(summaryUnsorted[j])
    /\ summaryFiltered # summaryUnsorted
    /\ summaryPaginatedParts = summaryFiltered

\* C6 second case: two of three displayed records have the same price.
C6_TieReached ==
    /\ sortField = "Standard_Price"
    /\ Len(summaryUnsorted) = 3
    /\ \E i, j \in 1..3 :
           i < j /\ PriceOrZero(summaryUnsorted[i]) = PriceOrZero(summaryUnsorted[j])

\* ------------------------------------------------------------------------
\* Properties of searchParts
\* ------------------------------------------------------------------------
\* text contains q as a substring when case is ignored.
ContainsIgnoringCase(text, q) ==
    \E i \in 0..(Len(text) - Len(q)) :
        \A j \in 1..Len(q) : LowerChar(text[i + j]) = LowerChar(q[j])

\* The entry's part code, description or supplier name contains q.
EntryMatches(e, q) ==
    \/ ContainsIgnoringCase(e[1], q)
    \/ ("SPRAS_EN" \in DOMAIN e[2] /\ ContainsIgnoringCase(e[2]["SPRAS_EN"], q))
    \/ ("Supplier_Name" \in DOMAIN e[2] /\ ContainsIgnoringCase(e[2]["Supplier_Name"], q))

MatchingEntries(db, q) == {e \in Range(db) : EntryMatches(e, q)}

\* C8: for a non-empty query q and a limit L, searchParts(q, L) returns only
\* records of the collection whose part code, description or supplier name
\* contains q ignoring case, at most L of them, and (its read of the
\* collection having succeeded) all of them when the collection has at most
\* L matches; records that lack a description or a supplier are matched on
\* the fields they have.
C8_SearchParts ==
    (svcCalled /\ svcSearchTerm # EmptyString) =>
        /\ Range(svcResult) \subseteq MatchingEntries(store, svcSearchTerm)
        /\ Len(svcResult) <= svcLimit
        /\ Cardinality(KeySet(svcResult)) = Len(svcResult)
        /\ (svcReadOk /\ Cardinality(MatchingEntries(store, svcSearchTerm)) <= svcLimit)
               => Range(svcResult) = MatchingEntries(store, svcSearchTerm)

\* C8 witness: a search returned, within the limit, all the matches of the
\* collection, one matched by its upper-case part code alone and lacking a
\* description.
C8_Witness ==
    /\ svcCalled /\ svcReadOk
    /\ svcSearchTerm = <<"a">>
    /\ Len(svcResult) >= 2
    /\ Range(svcResult) = MatchingEntries(store, svcSearchTerm)
    /\ Len(svcResult) < Len(store)
    /\ \E i \in 1..Len(svcResult) :
           /\ svcResult[i][1] = <<"A", "1">>
           /\ "SPRAS_EN" \notin DOMAIN svcResult[i][2]

\* C8, the limit: a search with more matches than the limit returned exactly
\* the limit.
C8_LimitReached ==
    /\ svcCalled /\ svcReadOk /\ svcSearchTerm # EmptyString
    /\ Cardinality(MatchingEntries(store, svcSearchTerm)) > svcLimit
    /\ svcLimit > 0
    /\ Len(svcResult) = svcLimit

\* ------------------------------------------------------------------------
\* Properties of the ticket submission
\* ------------------------------------------------------------------------
\* The four fields handleSubmit requires are filled in on the form.
requiredFieldsFilledOnForm ==
    /\ formData.requestedBy # EmptyString
    /\ formData.department # EmptyString
    /\ formData.quantity # EmptyString
    /\ formData.specifications # EmptyString

\* The tickets of the application list that carry the given id.
TicketsWithId(apps, ticketId) == {i \in 1..Len(apps) : apps[i].ticketId = ticketId}

FormFields == DOMAIN InitialForm

\* The step is an accepted submission of the form: one ticket is appended, its
\* id is not empty, the id finds that one ticket in the list, and the ticket
\* has status 'pending' and the field values of the submitted form.
SubmissionAccepted ==
    /\ Len(applications') = Len(applications) + 1
    /\ SubSeq(applications', 1, Len(applications)) = applications
    /\ LET ticket == applications'[Len(applications')]
       IN  /\ ticket.ticketId # EmptyString
           /\ TicketsWithId(applications', ticket.ticketId) = {Len(applications')}
           /\ ticket.status = "pending"
           /\ \A f \in FormFields : ticket[f] = formData[f]
           /\ message' = SubmittedMessage(ticket.ticketId)

\* The ticket of an accepted submission is what fetch-by-id returns from the
\* store.
SubmissionFetchable ==
    LET ticket == applications'[Len(applications')]
        fetched == getPartApplication(appStore', ticket.ticketId, TRUE)
    IN  /\ fetched # Null
        /\ fetched.status = "pending"
        /\ fetched.requested_by = formData.requestedBy
        /\ fetched.department = formData.department
        /\ fetched.technical_specs = formData.specifications

\* The form of C9: requester, department and specification filled in, every
\* other field at its initial value.
ThreeFieldForm(form) ==
    /\ form.requestedBy # EmptyString
    /\ form.department # EmptyString
    /\ form.specifications # EmptyString
    /\ \A f \in FormFields \ {"requestedBy", "department", "specifications"} :
           form[f] = InitialForm[f]

C10_RejectedSubmissionChangesNothing ==
    [][(handleSubmit /\ (formData.requestedBy = EmptyString
                            \/ formData.department = EmptyString))
           => /\ message' = RequiredFieldsMessage
              /\ applications' = applications
              /\ Len(applications') = Len(applications)
              /\ formData' = formData
              /\ appStore' = appStore]_vars

\* C10 witness: the validation error is shown for a form whose department is
\* empty and whose other required fields are filled in, while the list and
\* the store hold records.
C10_Witness ==
    /\ message = RequiredFieldsMessage
    /\ formData.department = EmptyString
    /\ formData.requestedBy = Alice
    /\ formData.quantity = One
    /\ formData.specifications = Bolt
    /\ Len(applications) = 1
    /\ Len(appStore) = 1

\* No two tickets of the application list carry the same ticket id, and no two
\* records of the store the same key.
NoDuplicateIds ==
    /\ \A i, j \in 1..Len(applications) :
           applications[i].ticketId = applications[j].ticketId => i = j
    /\ \A i, j \in 1..Len(appStore) : appStore[i][1] = appStore[j][1] => i = j

\* The step appends a ticket to the application list.
TicketAppended == Len(applications') = Len(applications) + 1

\* C11: after any sequence of accepted submissions no two tickets of the
\* application list or the store carry the same ticket id, and an id once
\* assigned to a ticket is never assigned to a later ticket.
C11_IdsNeverReused ==
    [][/\ NoDuplicateIds'
       /\ (handleSubmit /\ TicketAppended)
             => applications'[Len(applications')].ticketId \notin assignedIds]_vars

\* C12: every ticket is created with status 'pending' and no operation
\* changes it: every ticket of the application list has status 'pending'.
C12_EveryTicketPending ==
    \A i \in 1..Len(applications) : applications[i].status = "pending"

\* C12 witness: two tickets are listed, the first submitted at an earlier
\* instant, and a later submission has been rejected.
C12_Witness ==
    /\ Len(applications) = 2
    /\ message = RequiredFieldsMessage
    /\ now = 1
    /\ applications[1].submittedAt = 0

\* C13: an accepted submission appends exactly one ticket, and every ticket
\* already listed keeps its id, field values, submission time and position
\* across submissions, rejected submissions and PDF downloads.
C13_TicketsImmutable ==
    [][(handleSubmit \/ downloadPDF \/ \E ok \in BOOLEAN : downloadPDFDone(ok))
          => /\ Len(applications') >= Len(applications)
             /\ SubSeq(applications', 1, Len(applications)) = applications
             /\ IF handleSubmit /\ requiredFieldsFilledOnForm
                THEN Len(applications') = Len(applications) + 1
                ELSE applications' = applications]_vars

\* C13 witness: the first ticket is still first after a second submission,
\* made at a later instant, and a failed PDF download.
C13_Witness ==
    /\ Len(applications) = 2
    /\ applications[1].ticketId = <<"P", "a", "r", "t", "0", "1">>
    /\ applications[1].submittedAt = 0
    /\ applications[2].submittedAt = 1
    /\ applications[1].notes # applications[2].notes
    /\ message = PdfFailedMessage

\* ------------------------------------------------------------------------
\* Properties of the ticket operations of FirebaseService
\* ------------------------------------------------------------------------
StoredTickets == {appStore[i][2] : i \in 1..Len(appStore)}

\* C14: fetch-all returns every stored ticket exactly once, ordered by
\* creation timestamp from the most recent to the oldest, and the empty list
\* when the store holds no ticket.
C14_FetchAllMostRecentFirst ==
    (call.op = "getAllPartApplications" /\ call.ok) =>
        /\ Len(call.value) = Len(appStore)
        /\ {call.value[i] : i \in 1..Len(call.value)} = StoredTickets
        /\ \A i, j \in 1..Len(call.value) :
               i < j => call.value[i].created_at >= call.value[j].created_at
        /\ appStore = EmptyObject => call.value = <<>>

\* ------------------------------------------------------------------------
\* Properties of updatePartData
\* ------------------------------------------------------------------------
Callers == 1..MaxCallers

\* The caller's call ends in this step.
CallEnds(p) ==
    /\ updaters[p].phase \in {"idle", "writing"}
    /\ updaters'[p].phase \in {"done", "thrown"}

\* The record stored for the caller's part code after the step is the record
\* the call read with the updates merged in, and the other records are as
\* before the step.
MergeWritten(p) ==
    LET u == updaters'[p]
        before == u.currentData
        after == ChildVal(partsData', u.material)
    IN  /\ \A f \in DOMAIN u.updates :
               u.updates[f] # Undefined => (f \in DOMAIN after /\ after[f] = u.updates[f])
        /\ \A f \in (DOMAIN before) \ (DOMAIN u.updates) :
               f \in DOMAIN after /\ after[f] = before[f]
        /\ DOMAIN after \subseteq (DOMAIN before) \cup (DOMAIN u.updates)
        /\ Len(partsData') = Len(partsData)
        /\ \A i \in 1..Len(partsData) :
               partsData[i][1] # u.material => partsData'[i] = partsData[i]

\* C15: updatePartData(code, updates) on an existing part record, the store
\* answering its read and its write, writes back the record with every field
\* absent from updates as it was and every field present in updates at its
\* new value, and leaves the records of the other part codes unchanged.
C15_MergeNotReplace ==
    [][\A p \in Callers :
          (CallEnds(p) /\ updaters'[p].storeOk /\ HasKey(partsData, updaters'[p].material))
              => MergeWritten(p)]_vars

\* Both callers have finished updates of disjoint fields of one part code, and
\* each read the record before the other (or anyone) had written it.
Interleaved(p, q) ==
    /\ p # q
    /\ updaters[p].phase = "done" /\ updaters[q].phase = "done"
    /\ updaters[p].material = updaters[q].material
    /\ (DOMAIN updaters[p].updates) \cap (DOMAIN updaters[q].updates) = {}
    /\ updaters[p].currentData = ChildVal(InitialPartsData, updaters[p].material)
    /\ updaters[q].currentData = ChildVal(InitialPartsData, updaters[q].material)
    /\ \A r \in Callers \ {p, q} : updaters[r].phase \in {"idle", "thrown"}

\* The stored record carries the fields of exactly one of the two writers.
OneWriterLost(p, q) ==
    LET stored == ChildVal(partsData, updaters[p].material)
        initial == ChildVal(InitialPartsData, updaters[p].material)
    IN  \/ stored = Spread(initial, updaters[p].updates)
        \/ stored = Spread(initial, updaters[q].updates)

\* C16: updatePartData reads, then writes: when two updates of disjoint fields
\* of one part code both read before either writes, the record stored in the
\* end carries one writer's field only, both calls have returned normally, and
\* a call that has returned does nothing more (no detection, no retry).
C16_LostUpdate ==
    [][/\ \A p, q \in Callers : Interleaved(p, q)' => OneWriterLost(p, q)'
       /\ \A p \in Callers :
              updaters[p].phase \in {"done", "thrown"} => updaters'[p] = updaters[p]]_vars

\* C16 witness: the year of one caller and the note of the other were both
\* written over the record read at the start, and the year is lost.
C16_Witness ==
    /\ Interleaved(1, 2)
    /\ updaters[1].updates = [year |-> Year2024]
    /\ updaters[2].updates = [notes |-> New]
    /\ updaters[1].material = CodeA1
    /\ "year" \notin DOMAIN ChildVal(partsData, CodeA1)
    /\ ChildVal(partsData, CodeA1).notes = New

\* ------------------------------------------------------------------------
\* Properties of the BoM page
\* ------------------------------------------------------------------------
\* The part the parts collection gives for a lookup of the code: the entry of
\* the first match of the search, if that entry is keyed by the code.
LookupFinds(material) == HasKey(searchParts(store, material, 1, TRUE), material)

\* The step is the last answer of run i, the only run, whose components are
\* the ones displayed.
LastAnswer(i, material, ok) ==
    /\ LookupResolve(i, material, ok)
    /\ bomLoads[i].pending = {material}
    /\ Len(bomLoads) = 1
    /\ bomComponents = bomLoads[i].bomData

\* The enrichment mapping after the step holds the part of every code whose
\* lookup was answered with a part, and no other code.
EnrichedExactly(materials) ==
    /\ KeySet(bomParts') = {m \in materials : LookupFinds(m)}
    /\ \A m \in KeySet(bomParts') :
           Lookup(bomParts', m) = Lookup(searchParts(store, m, 1, TRUE), m)

\* C17: when the lookup of a component code fails or finds no part, the run
\* still ends: the enrichment mapping holds the part of every code whose
\* lookup returned a part, the other codes are absent from it, every
\* component of the model is still listed, and the loading flag is false.
C17_PartialEnrichment ==
    [][\A i \in 1..MaxLoads, ok \in BOOLEAN :
          \A material \in UNION {bomLoads[k].pending : k \in 1..Len(bomLoads)} :
              LastAnswer(i, material, ok)
                  => /\ EnrichedExactly(bomLoads[i].answered
                                            \cup (IF ok THEN {material} ELSE {}))
                     /\ bomComponents' = getBoMComponents(bomStore, bomLoads[i].model, TRUE)
                     /\ bomComponents' = bomComponents
                     /\ loadingComponents' = FALSE
                     /\ bomLoads' = <<>>]_vars

\* C17 witness: model A is shown with its three components, the lookup of
\* one code failed or found no part, and the two other codes are enriched.
C17_Witness ==
    /\ selectedModel = ModelA
    /\ Len(bomComponents) = 3
    /\ KeySet(bomParts) = {<<"2">>, <<"1", "0">>}
    /\ HasKey(store, <<"a">>)
    /\ ~loadingComponents
    /\ bomLoads = <<>>

\* ------------------------------------------------------------------------
\* Properties of the part images
\* ------------------------------------------------------------------------
\* The three sources of a part in their fixed order.
SourcesInOrder(material) ==
    <<ImageUrl(material, ".png"), ImageUrl(material, ".jpg"), ImageUrl(material, ".webp")>>

\* C18: the sources of a part are shown in the order .png, .jpg, .webp, the
\* next one only after the current one has failed to load; the placeholder
\* is shown if and only if all three have failed; no source is tried twice.
C18_FallbackOrder ==
    LET sources == SourcesInOrder(imgMaterial)
    IN  /\ Len(requested) \in 1..3
        /\ requested = SubSeq(sources, 1, Len(requested))
        /\ \A i \in 1..(Len(requested) - 1) : requested[i] \in failed
        /\ hasError <=> failed = {sources[1], sources[2], sources[3]}
        /\ ~hasError => currentSrc = requested[Len(requested)]

\* C18 witness: the .png and the .jpg of the part have failed and its .webp
\* is shown.
C18_Witness ==
    /\ imgMaterial = <<"A", "/", "1">>
    /\ failed = {ImageUrl(imgMaterial, ".png"), ImageUrl(imgMaterial, ".jpg")}
    /\ currentSrc = ImageUrl(imgMaterial, ".webp")
    /\ imgStatus = "loaded"

\* The placeholder is shown after the three sources have failed.
C18_PlaceholderReached ==
    /\ hasError
    /\ Len(requested) = 3

\* ------------------------------------------------------------------------
\* Properties of the failures of the store
\* ------------------------------------------------------------------------
ReadOperations ==
    {"getAllParts", "searchParts", "getBoMComponents", "getAllBoMModels",
     "getAllPartApplications", "getPartApplication"}
WriteOperations == {"submitPartApplication", "updatePartData"}

\* What the read operation returns for nothing: {}, [] or null.
EmptyResult(c) ==
    IF c.op = "getPartApplication" THEN c.value[2] = Null ELSE c.value = <<>>

\* How the last call ended, by the kind of its operation.
FailureHandled(c) ==
    /\ c.op \in ReadOperations => c.outcome = "returned"
    /\ (c.op \in ReadOperations /\ ~c.ok) => EmptyResult(c)
    /\ (c.op \in WriteOperations /\ ~c.ok) => c.outcome = "thrown"

\* C19: a failed read of the store is returned to the caller as the empty
\* mapping, the empty list or null and is never raised; a failed write is
\* raised to the caller, writes nothing and is not tried again.
C19_ReadsDegradeWritesRaise ==
    [][/\ FailureHandled(call')
       /\ \A application \in ServiceApplications, time \in Instants :
              submitPartApplication(application, time, FALSE)
                  => (appStore' = appStore /\ pushCount' = pushCount + 1)
       /\ \A p \in Callers :
              /\ UpdateWrite(p, FALSE) => partsData' = partsData
              /\ updaters[p].phase = "thrown" => updaters'[p] = updaters[p]
              /\ updaters'[p].phase = "thrown" => partsData' = partsData]_vars

\* C19 witness: a failed read has returned an empty result while the store
\* holds tickets, and an updatePartData whose write failed has thrown.
C19_Witness ==
    /\ call.op = "getAllPartApplications"
    /\ ~call.ok
    /\ call.value = <<>>
    /\ Len(appStore) > 0
    /\ updaters[1].phase = "thrown"
    /\ ~updaters[1].storeOk
    /\ updaters[1].updates = [year |-> Year2024]

\* A failed submitPartApplication has thrown and stored nothing.
C19_FailedSubmit ==
    /\ call.op = "submitPartApplication"
    /\ call.outcome = "thrown"
    /\ pushCount = 1
    /\ appStore = EmptyObject

\* ------------------------------------------------------------------------
\* Properties of the PDF
\* ------------------------------------------------------------------------
BlockFields == <<"technical_specs", "justification", "application_notes", "image_url">>

BlockTitles(language) ==
    <<techSpecsTitle(language), justificationTitle(language), notesTitle(language),
      imageTitle(language)>>

NonEmptyField(application, field) ==
    field \in DOMAIN application /\ application[field] # EmptyString

\* The headings of the four blocks in the order the document has them.
HeadingsDrawn(doc, language) ==
    LET titles == BlockTitles(language)
        drawn == SelectSeq(doc.ops,
                           LAMBDA o : o.op = "text"
                                      /\ \E k \in 1..4 : o.label = titles[k])
    IN  [i \in 1..Len(drawn) |-> drawn[i].label]

\* The headings of the blocks whose field is not empty, in the fixed order.
HeadingsExpected(application, language) ==
    LET titles == BlockTitles(language)
        kept == SelectSeq(<<1, 2, 3, 4>>,
                          LAMBDA k : NonEmptyField(application, BlockFields[k]))
    IN  [i \in 1..Len(kept) |-> titles[kept[i]]]

\* Under the heading of a text block stand the lines of its field.
TextUnderHeading(doc, application, language) ==
    \A i \in 1..Len(doc.ops), k \in 1..3 :
        (doc.ops[i].op = "text" /\ doc.ops[i].label = BlockTitles(language)[k])
            => /\ i < Len(doc.ops)
               /\ doc.ops[i + 1].op = "text"
               /\ doc.ops[i + 1].label = ""
               /\ doc.ops[i + 1].lines = splitTextToSize(application[BlockFields[k]])
               /\ doc.ops[i + 1].page = doc.ops[i].page

\* C20: generateApplicationPDF draws the technical-specification,
\* justification, notes and image blocks in that order, the heading of a
\* block exactly when its field is not empty; with empty technical_specs and
\* empty justification the document has neither heading.
C20_BlocksInOrder ==
    pdfPhase # "idle"
        => /\ HeadingsDrawn(pdfDoc, pdfLanguage)
                  = HeadingsExpected(pdfApplication, pdfLanguage)
           /\ TextUnderHeading(pdfDoc, pdfApplication, pdfLanguage)
           /\ (pdfApplication.technical_specs = EmptyString
                   /\ pdfApplication.justification = EmptyString)
                  => \A i \in 1..Len(pdfDoc.ops) :
                         pdfDoc.ops[i].label
                             \notin {techSpecsTitle(pdfLanguage),
                                      justificationTitle(pdfLanguage)}

\* C20 witness: a saved document of a ticket with empty technical_specs and
\* empty justification, whose notes and image headings are drawn.
C20_Witness ==
    /\ pdfPhase = "saved"
    /\ pdfApplication.technical_specs = EmptyString
    /\ pdfApplication.justification = EmptyString
    /\ HeadingsDrawn(pdfDoc, pdfLanguage)
           = <<notesTitle(pdfLanguage), imageTitle(pdfLanguage)>>

\* A saved document with the four headings, the justification on a new page.
C20_AllBlocks ==
    /\ pdfPhase = "saved"
    /\ Len(HeadingsDrawn(pdfDoc, pdfLanguage)) = 4
    /\ pdfDoc.page > 1

\* ------------------------------------------------------------------------
\* Properties of the page breaks of the PDF
\* ------------------------------------------------------------------------
\* The distance of two lines of a text, as yPosition is advanced for them
\* (lines.length * 5).
lineStep == 5

\* Where the last line of a pdf.text call is drawn.
LastLineY(o) == IF Len(o.lines) > 1 THEN o.y + (Len(o.lines) - 1) * lineStep ELSE o.y

\* C21: no heading and no line of a text is drawn below the bottom of the
\* page it is drawn on.
C21_NoOverflow ==
    pdfPhase # "idle"
        => \A i \in 1..Len(pdfDoc.ops) :
               pdfDoc.ops[i].op = "text" => LastLineY(pdfDoc.ops[i]) <= pageHeight

\* The files pdf.save has written.
SavedFiles(doc) == SelectSeq(doc.ops, LAMBDA o : o.op = "save")

\* The document is saved once, as its last call, under the name of the
\* ticket and the language.
SavedOnce ==
    /\ pdfPhase = "saved"
    /\ Len(SavedFiles(pdfDoc)) = 1
    /\ pdfDoc.ops[Len(pdfDoc.ops)].op = "save"
    /\ \E lang \in {<<"e", "n">>, <<"z", "h">>} :
           pdfDoc.ops[Len(pdfDoc.ops)].lines
               = <<pdfApplication.ticket_id \o <<"_">> \o lang \o <<".", "p", "d", "f">>>>

\* C22: when the image of a ticket fails to load, generateApplicationPDF
\* adds no image and saves exactly one file, {ticketId}_{lang}.pdf with lang
\* en or zh; a call that waits for the image always comes to its end.
C22_ImageFailureStillSaves ==
    /\ [][imageSettled(FALSE)
             => /\ SavedOnce'
                /\ \A i \in 1..Len(pdfDoc'.ops) : pdfDoc'.ops[i].op # "addImage"]_vars
    /\ (pdfPhase = "image") ~> (pdfPhase = "saved")

\* C22 witness: the document of a ticket with an image is saved without the
\* image, under the title of the image.
C22_Witness ==
    /\ pdfPhase = "saved"
    /\ HasImage(pdfApplication)
    /\ \A i \in 1..Len(pdfDoc.ops) : pdfDoc.ops[i].op # "addImage"
    /\ \E i \in 1..Len(pdfDoc.ops) : pdfDoc.ops[i].label = imageTitle(pdfLanguage)
    /\ Len(SavedFiles(pdfDoc)) = 1

\* ------------------------------------------------------------------------
\* Properties of the admin page
\* ------------------------------------------------------------------------
\* C23: a save whose updatePartData raises leaves the local mapping as it
\* was, shows the error message and sets isSaving to false; while a save is
\* under way the local mapping changes only once the write has succeeded.
C23_FailedSaveKeepsLocalState ==
    [][/\ (saveSettled /\ updaters[AdminCaller].phase = "thrown")
             => /\ adminParts' = adminParts
                /\ adminMessage' = PartDataFailedMessage
                /\ isSaving' = FALSE
       /\ (isSaving /\ adminParts' # adminParts)
             => /\ updaters[AdminCaller].phase = "done"
                /\ HasKey(partsData, updaters[AdminCaller].material)
                /\ Lookup(partsData, updaters[AdminCaller].material)
                       = updaters[AdminCaller].updatedData]_vars

\* C23 witness: a save has failed at the store; the error message is shown,
\* isSaving is false and the local mapping is the loaded one.
C23_Witness ==
    /\ adminMessage = PartDataFailedMessage
    /\ ~isSaving
    /\ call = Thrown("updatePartData")
    /\ selectedPart.selected
    /\ updatesOf(adminForm) = [notes |-> New, year |-> Year2024,
                               obsoleted_date |-> Year2024, alternative_parts |-> CodeB]
    /\ adminParts = store
    /\ partsData = InitialPartsData

\* ------------------------------------------------------------------------
\* Properties of the admin update and the catalogue
\* ------------------------------------------------------------------------
\* The record the mapping has for the code holds the updates.
HoldsUpdates(parts, material, updates) ==
    /\ HasKey(parts, material)
    /\ \A f \in DOMAIN updates :
           f \in DOMAIN Lookup(parts, material) /\ Lookup(parts, material)[f] = updates[f]

\* C26: a getAllParts that follows a completed updatePartData(code, updates)
\* returns for the code a record with the updated fields.
C26_UpdateVisibleToCatalogue ==
    [][(updaters[1].phase = "done" /\ call'.op = "getAllParts" /\ call'.ok)
          => /\ call'.value = getAllParts(store, TRUE)
             /\ HoldsUpdates(call'.value, updaters[1].material, updaters[1].updates)]_vars

\* ------------------------------------------------------------------------
\* Properties of the current page of the catalogue
\* ------------------------------------------------------------------------
\* C24: whenever the debounced search term changes, the current page is 1
\* afterwards, and the first page is the one displayed.
C24_SearchChangeResetsPage ==
    [][debouncedSearchTerm' # debouncedSearchTerm
          => /\ currentPage' = 1
             /\ displayedParts'
                    = ObjectFromEntries(PageSlice(filteredAndSortedParts', 1, itemsPerPage))]_vars

\* C24 witness: the search term has just changed while the parts of the
\* term before it, more than one page of them, are still listed: the page
\* is 1.
C24_Witness ==
    /\ debouncedSearchTerm # EmptyString
    /\ inFlight[debouncedSearchTerm] > 0
    /\ isSearching
    /\ totalPages > 1
    /\ currentPage = 1
    /\ allParts = store

\* The current page is one of the pages there are.
PageInRange == 1 <= currentPage /\ currentPage <= Max(1, totalPages)

\* C25: the current page p satisfies 1 <= p <= max(1, total page count), and
\* the displayed page is empty only when the filtered result is empty.
C25_PageWithinRange ==
    ~loading
        => /\ PageInRange
           /\ displayedParts = EmptyObject => filteredAndSortedParts = <<>>

\* ------------------------------------------------------------------------
\* Properties of the fetches of the catalogue
\* ------------------------------------------------------------------------
\* What a fetch for the search term gives: the answer of the store, or the
\* empty mapping when the read fails.
FetchResults(q) ==
    {IF q # EmptyString THEN searchParts(store, q, SearchLimit, ok) ELSE getAllParts(store, ok) :
        ok \in BOOLEAN}

\* C27: once no fetch is in flight, the loaded mapping is the result for the
\* latest debounced search term.
C27_LatestTermWins ==
    InFlightCount = 0 => allParts \in FetchResults(debouncedSearchTerm)

\* ------------------------------------------------------------------------
\* Properties of the loads of the BoM page
\* ------------------------------------------------------------------------
\* What getBoMComponents gives for the model: the answer of the store, or
\* the empty mapping when the read fails.
ComponentsOf(model) == {getBoMComponents(bomStore, model, ok) : ok \in BOOLEAN}

\* C28: once no load is in flight, the displayed components and the
\* enrichment mapping are those of the selected model; the loading indicator
\* is on while a load is in flight.
C28_SelectedModelWins ==
    /\ (bomLoads = <<>> /\ selectedModel # EmptyString)
          => /\ bomComponents \in ComponentsOf(selectedModel)
             /\ KeySet(bomParts) \subseteq UniqueMaterials(bomComponents)
    /\ bomLoads # <<>> => loadingComponents

\* With a store that answers every read: model B is selected, nothing is in
\* flight, and the components and the enrichment mapping are those of A.
C28_StaleModelShown ==
    /\ bomLoads = <<>>
    /\ selectedModel = ModelB
    /\ bomComponents = getBoMComponents(bomStore, ModelA, TRUE)
    /\ bomComponents # getBoMComponents(bomStore, ModelB, TRUE)
    /\ KeySet(bomParts) = {m \in UniqueMaterials(bomComponents) : LookupFinds(m)}
    /\ KeySet(bomParts) # {}

\* ------------------------------------------------------------------------
\* Properties of the enrichment lookup of the BoM page
\* ------------------------------------------------------------------------
\* C29: when a run ends whose lookups were all answered by the store, the
\* enrichment mapping holds, for every component code that is a key of the
\* parts collection, the record stored under that code.
C29_LookupByCode ==
    [][\A i \in 1..MaxLoads :
          \A material \in UNION {bomLoads[k].pending : k \in 1..Len(bomLoads)} :
              (/\ LastAnswer(i, material, TRUE)
               /\ bomLoads[i].answered \cup {material} = UniqueMaterials(bomComponents))
                  => \A m \in UniqueMaterials(bomComponents) :
                         HasKey(store, m)
                             => /\ HasKey(bomParts', m)
                                /\ Lookup(bomParts', m) = Lookup(store, m)]_vars

\* ------------------------------------------------------------------------
\* Properties of the pagination controls
\* ------------------------------------------------------------------------
\* C30: for a page count T >= 2 and a page p in 1..T the numbered buttons are
\* min(5, T) consecutive page numbers within 1..T, p among them, and the
\* first, previous, next and last buttons keep the page within 1..T.
C30_ButtonsWithinPages ==
    LET T == pgTotalPages
        p == pgCurrentPage
    IN  /\ T >= 2
        /\ p \in 1..T
        /\ pgButtons = PageButtons(T, p)
        /\ Cardinality(pgButtons) = Min(5, T)
        /\ pgButtons \subseteq 1..T
        /\ p \in pgButtons
        /\ \E first \in 1..T : pgButtons = first..(first + Min(5, T) - 1)
        /\ {1, Max(1, p - 1), Min(T, p + 1), T} \subseteq 1..T

\* C30 witness: on the last of nine pages the buttons are 5 to 9.
C30_Witness ==
    /\ pgTotalPages = 9
    /\ pgCurrentPage = 9
    /\ pgButtons = 5..9

====
